---- MODULE Spec2Model ----
(***************************************************************************)
(* Monte Carlo measurement engine of the AM/FM noise simulator:            *)
(* the per-trial pipeline (generate, inject noise, demodulate, score),     *)
(* the statistical aggregator and the two worker-pool distributors         *)
(* (runParallelMonteCarloSimulation, simulateSNRPerformanceParallel).      *)
(*                                                                         *)
(* float64 values are modelled in fixed point: a finite value is an        *)
(* integer, and NaN, +Inf and -Inf are kept as separate values.  A         *)
(* division truncates toward zero.  SNR values are whole multiples of      *)
(* 10 dB.  A generator is a small full-period congruential generator: its  *)
(* stream is a function of the seed alone, as for math/rand.               *)
(***************************************************************************)
EXTENDS Integers, Sequences, FiniteSets, TLC

(***************************************************************************)
(* Bounds of the model.                                                    *)
(***************************************************************************)
MaxWorkers == 2
MaxSweep == 2
MaxIterations == 2
\* trials per SNR point in the runs checked for termination
MaxFairIterations == 1
\* sampling rates and durations of the signals given to the single functions
MaxRate == 2
MaxDuration == 1
\* processors of the machine
MaxCPU == 9
\* samples of the signals given to the single functions
MaxSamples == 2

\* Seeds a configuration may carry (0: no seed supplied), and the values the
\* secure random source may return
Seeds == {0, 1}
CryptoSeeds == {5}

\* The SNR sweeps: the first n points of 10, 0, -10, ... dB
SweepPoint(i) == 20 - 10 * i

(***************************************************************************)
(* float64                                                                 *)
(***************************************************************************)
Fin(v) == [kind |-> "fin", val |-> v]
NaN == [kind |-> "nan", val |-> 0]
PosInf == [kind |-> "inf", val |-> 1]
NegInf == [kind |-> "inf", val |-> -1]

\* a local variable: F applied to the value of e
Local(e, F(_)) == CHOOSE r \in {F(v) : v \in {e}} : TRUE

Abs(x) == IF x < 0 THEN -x ELSE x
Sign(x) == IF x < 0 THEN -1 ELSE IF x > 0 THEN 1 ELSE 0
Quot(a, b) == Sign(a) * Sign(b) * (Abs(a) \div Abs(b))

RECURSIVE SqrtFrom(_, _)
SqrtFrom(x, r) == IF (r + 1) * (r + 1) > x THEN r ELSE SqrtFrom(x, r + 1)
ISqrt(x) == SqrtFrom(x, 0)

RECURSIVE ILog2(_)
ILog2(x) == IF x <= 1 THEN 0 ELSE 1 + ILog2(x \div 2)

RECURSIVE Pow10(_)
Pow10(k) == IF k <= 0 THEN 1 ELSE 10 * Pow10(k - 1)

FNeg(a) == [a EXCEPT !.val = -a.val]

FAdd(a, b) ==
    IF a.kind = "nan" \/ b.kind = "nan" THEN NaN
    ELSE IF a.kind = "inf" /\ b.kind = "inf"
         THEN (IF a.val = b.val THEN a ELSE NaN)
    ELSE IF a.kind = "inf" THEN a
    ELSE IF b.kind = "inf" THEN b
    ELSE Fin(a.val + b.val)

FSub(a, b) == FAdd(a, FNeg(b))

FMul(a, b) ==
    IF a.kind = "nan" \/ b.kind = "nan" THEN NaN
    ELSE IF a.kind = "inf" \/ b.kind = "inf"
         THEN (IF a.val = 0 \/ b.val = 0 THEN NaN
               ELSE IF Sign(a.val) = Sign(b.val) THEN PosInf ELSE NegInf)
    ELSE Fin(a.val * b.val)

\* a / float64(n) for an integer count n
FDivCount(a, n) ==
    IF a.kind = "nan" THEN NaN
    ELSE IF n = 0
         THEN (IF a.val = 0 THEN NaN ELSE IF a.val > 0 THEN PosInf ELSE NegInf)
    ELSE IF a.kind = "inf"
         THEN (IF Sign(a.val) = Sign(n) THEN PosInf ELSE NegInf)
    ELSE Fin(Quot(a.val, n))

FSqrt(a) ==
    IF a.kind = "nan" THEN NaN
    ELSE IF a.kind = "inf" THEN (IF a.val > 0 THEN PosInf ELSE NaN)
    ELSE IF a.val < 0 THEN NaN
    ELSE Fin(ISqrt(a.val))

(***************************************************************************)
(* Sequences of samples                                                    *)
(***************************************************************************)
RECURSIVE SumSeq(_)
SumSeq(s) == IF s = <<>> THEN 0 ELSE Head(s) + SumSeq(Tail(s))

SumSq(s) == SumSeq([i \in 1..Len(s) |-> s[i] * s[i]])

RECURSIVE FSum(_)
FSum(s) == IF s = <<>> THEN Fin(0) ELSE FAdd(Head(s), FSum(Tail(s)))

Min(a, b) == IF a < b THEN a ELSE b
Max(a, b) == IF a > b THEN a ELSE b

(***************************************************************************)
(* Signal parameters and the waveform generators.  Frequencies are in      *)
(* quarter cycles per sample, so sin(2*pi*f*t) at sample i is              *)
(* SinQ(f * i).                                                            *)
(***************************************************************************)
SinQ(k) == <<0, 1, 0, -1>>[(k % 4) + 1]

amParams == [SamplingRate |-> 2, Duration |-> 1, MessageFreq |-> 1,
             CarrierFreq |-> 1, MessageAmp |-> 4, CarrierAmp |-> 2,
             ModulationIdx |-> 1]
fmParams == [amParams EXCEPT !.ModulationIdx = 2]

\* generateTimeVector: the sample indices 0 .. numSamples-1
NumSamples(params) == params.SamplingRate * params.Duration

\* time[i] = float64(i) * dt in sample periods; dt has the sign of the
\* sampling rate
SampleTime(params, i) == Sign(params.SamplingRate) * i

\* make([]float64, numSamples) panics for a negative length
generateTimeVectorPanics(params) == NumSamples(params) < 0

generateTimeVector(params) ==
    [k \in 1..NumSamples(params) |-> SampleTime(params, k - 1)]

generateBaseband(params) ==
    [k \in 1..NumSamples(params) |->
        params.MessageAmp
        * SinQ(params.MessageFreq * SampleTime(params, k - 1))]

generateCarrier(params) ==
    [k \in 1..NumSamples(params) |->
        params.CarrierAmp
        * SinQ(params.CarrierFreq * SampleTime(params, k - 1))]

generateAM(params) ==
    [k \in 1..NumSamples(params) |->
        params.CarrierAmp
        * (1 + params.ModulationIdx
               * (params.MessageAmp
                  * SinQ(params.MessageFreq * SampleTime(params, k - 1))))
        * SinQ(params.CarrierFreq * SampleTime(params, k - 1))]

\* running trapezoidal integral of the message up to sample k (1-based)
RECURSIVE Integral(_, _)
Integral(params, k) ==
    IF k <= 1 THEN 0
    ELSE Integral(params, k - 1)
         + Quot(params.MessageAmp
                * SinQ(params.MessageFreq * SampleTime(params, k - 1))
                + params.MessageAmp
                  * SinQ(params.MessageFreq * SampleTime(params, k - 2)),
                2 * params.SamplingRate)

generateFM(params) ==
    [k \in 1..NumSamples(params) |->
        params.CarrierAmp
        * SinQ(params.CarrierFreq * SampleTime(params, k - 1)
               + params.ModulationIdx * Integral(params, k))]

Modulate(modType, params) ==
    IF modType = "AM" THEN generateAM(params) ELSE generateFM(params)

(***************************************************************************)
(* Generators of pseudo-random numbers                                     *)
(***************************************************************************)
NewSource(seed) == seed % 16
RngNext(s) == (5 * s + 1) % 16
NormFloat64(s) == (s \div 3) - 2

\* the generator state after k draws
RECURSIVE Advance(_, _)
Advance(s, k) == IF k = 0 THEN s ELSE Advance(RngNext(s), k - 1)

(***************************************************************************)
(* Noise injector                                                          *)
(***************************************************************************)
\* noiseStdDev of addAWGN / addAWGNWithRNG
NoiseStdDev(values, snrDB) ==
    IF Len(values) = 0 THEN 0
    ELSE IF snrDB >= 0
         THEN ISqrt(SumSq(values) \div (Len(values) * Pow10(snrDB \div 10)))
         ELSE ISqrt((SumSq(values) * Pow10((-snrDB) \div 10)) \div Len(values))

\* one sample of the noisy signal: the draw is the one the generator
\* yields from state s
NoisySample(val, stdDev, s) == val + NormFloat64(RngNext(s)) * stdDev

\* addAWGNWithRNG: draws one sample per value, in order, from state s
addAWGNWithRNG(values, snrDB, s) ==
    [k \in 1..Len(values) |->
        NoisySample(values[k], NoiseStdDev(values, snrDB), Advance(s, k - 1))]

(***************************************************************************)
(* Demodulators                                                            *)
(***************************************************************************)
windowSize == 20

\* a window of the windowSize samples up to index i
WindowStartTrailing(i) == Max(i - windowSize, 0)

WindowStart(i) == Max(i - windowSize \div 2, 0)
WindowEnd(i, n) == IF i + windowSize \div 2 >= n THEN n - 1
                   ELSE i + windowSize \div 2

\* centered moving average at 0-based index i
MovingAverage(x, i) ==
    LET start == WindowStart(i)
        end == WindowEnd(i, Len(x))
    IN  Quot(SumSeq([j \in 1..(end - start + 1) |-> x[start + j]]),
             end - start + 1)

demodulateAM(values) ==
    Local([k \in 1..Len(values) |-> Abs(values[k])], LAMBDA rectified :
        [k \in 1..Len(values) |-> MovingAverage(rectified, k - 1)])

\* the threshold 1e-10 of the discriminator: less than one unit of the fixed
\* point, so a denominator exceeds it exactly when it is not zero
discriminatorFloor == 0

\* quadSignal[j]: the signal delayed by one sample
QuadSample(values, j) == IF j = 0 THEN values[1] ELSE values[j]

\* I^2 + Q^2 at 0-based index i >= 1
Denominator(values, i) ==
    values[i + 1] * values[i + 1]
    + QuadSample(values, i) * QuadSample(values, i)

\* the branch that divides is taken at index i
Divides(values, i) == i >= 1 /\ Denominator(values, i) > discriminatorFloor

\* a first output that passes the first sample through
DiscriminatorFirstSample(values) == values[1]

\* demodulated.Values[0] = 0.0
DiscriminatorFirstValue(values) == 0

\* the discriminator output at 0-based index i, before smoothing
Discriminator(values, params, i) ==
    IF i = 0 THEN DiscriminatorFirstValue(values)
    ELSE LET quad(j) == QuadSample(values, j)
             I_curr == values[i + 1]
             Q_curr == quad(i)
             I_prev == values[i]
             Q_prev == quad(i - 1)
             dI == I_curr - I_prev
             dQ == Q_curr - Q_prev
             numerator == I_curr * dQ - Q_curr * dI
             denominator == Denominator(values, i)
         IN  IF Divides(values, i)
             THEN Quot(Quot(numerator * params.SamplingRate, denominator),
                       params.ModulationIdx)
             ELSE 0

\* quadSignal[0] = signal.Values[0] is out of range for an empty signal
demodulateFMPanics(values) == Len(values) = 0

demodulateFM(values, params) ==
    Local([k \in 1..Len(values) |-> Discriminator(values, params, k - 1)],
          LAMBDA raw : [k \in 1..Len(values) |-> MovingAverage(raw, k - 1)])

Demodulate(modType, values, params) ==
    IF modType = "AM" THEN demodulateAM(values)
    ELSE demodulateFM(values, params)

(***************************************************************************)
(* Signal metrics                                                          *)
(***************************************************************************)
\* noisy.Values[i] is out of range when noisy is the shorter signal
calculateSNRPanics(original, noisy) == Len(noisy) < Len(original)

\* a calculateSNR that looks at the signal power before the noise power
calculateSNRSignalFirst(original, noisy) ==
    LET signalPower == SumSq(original)
        noisePower == SumSq([k \in 1..Len(original) |-> noisy[k] - original[k]])
    IN  IF Len(original) = 0 THEN NaN
        ELSE IF signalPower = 0 THEN NegInf
        ELSE IF noisePower = 0 THEN PosInf
        ELSE Fin(3 * (ILog2(signalPower) - ILog2(noisePower)))

\* calculateSNR: both powers are divided by the same length, which cancels
\* in the quotient; 10*log10 is taken as 3*log2
calculateSNR(original, noisy) ==
    LET signalPower == SumSq(original)
        noisePower == SumSq([k \in 1..Len(original) |-> noisy[k] - original[k]])
    IN  IF Len(original) = 0 THEN NaN
        ELSE IF noisePower = 0 THEN PosInf
        ELSE IF signalPower = 0 THEN NegInf
        ELSE Fin(3 * (ILog2(signalPower) - ILog2(noisePower)))

computeOutputSNR(originalMessage, demodulated) ==
    calculateSNR(originalMessage, demodulated)

\* the values of a sequence that are finite numbers
RECURSIVE FiniteOnly(_)
FiniteOnly(s) ==
    IF s = <<>> THEN <<>>
    ELSE IF Head(s).kind = "fin" THEN <<Head(s)>> \o FiniteOnly(Tail(s))
    ELSE FiniteOnly(Tail(s))

\* a mean that leaves out the trials that are NaN or infinite
calculateMeanOfFinite(values) ==
    FDivCount(FSum(FiniteOnly(values)), Len(FiniteOnly(values)))

calculateMean(values) == FDivCount(FSum(values), Len(values))

\* a standard deviation with N-2 in the denominator
calculateStdDevNMinus2(values, mean) ==
    Local([k \in 1..Len(values) |->
              FMul(FSub(values[k], mean), FSub(values[k], mean))],
          LAMBDA squares : FSqrt(FDivCount(FSum(squares), Len(values) - 2)))

calculateStdDev(values, mean) ==
    Local([k \in 1..Len(values) |->
              FMul(FSub(values[k], mean), FSub(values[k], mean))],
          LAMBDA squares : FSqrt(FDivCount(FSum(squares), Len(values) - 1)))

(***************************************************************************)
(* Trial runner and statistical aggregator                                 *)
(***************************************************************************)
\* one trial: generate, inject noise, demodulate, score.  s is the state of
\* the generator before the trial
Trial(modType, params, targetSNR, s) ==
    Local(generateBaseband(params), LAMBDA originalMessage :
    Local(Modulate(modType, params), LAMBDA modulatedSignal :
    Local(addAWGNWithRNG(modulatedSignal, targetSNR, s), LAMBDA noisySignal :
    Local(Demodulate(modType, noisySignal, params), LAMBDA demodulatedSignal :
        computeOutputSNR(originalMessage, demodulatedSignal)))))

\* the PerformanceResult built from the measurements of one SNR point
Aggregate(modType, targetSNR, numIterations, measurements) ==
    Local(calculateMean(measurements), LAMBDA mean :
    Local(calculateStdDev(measurements, mean), LAMBDA stdDev :
        [InputSNR_dB |-> targetSNR,
         OutputSNR_dB |-> mean,
         StdDev |-> stdDev,
         ModulationType |-> modType,
         NumTrials |-> numIterations]))

\* the measurements of numIterations trials run in sequence from state s
Measurements(modType, params, targetSNR, numIterations, s) ==
    [t \in 1..numIterations |->
        Trial(modType, params, targetSNR,
              Advance(s, (t - 1) * NumSamples(params)))]

\* runSingleSNRSimulation: numIterations trials in sequence on one generator
runSingleSNRSimulation(modType, params, targetSNR, numIterations, s) ==
    Local(Measurements(modType, params, targetSNR, numIterations, s),
          LAMBDA measurements :
              Aggregate(modType, targetSNR, numIterations, measurements))

\* the generator after runSingleSNRSimulation
RngAfterPoint(params, numIterations, s) ==
    Advance(s, numIterations * NumSamples(params))

ZeroResult == [InputSNR_dB |-> 0, OutputSNR_dB |-> Fin(0), StdDev |-> Fin(0),
               ModulationType |-> "", NumTrials |-> 0]

ParamsOf(modType) == IF modType = "AM" THEN amParams ELSE fmParams

(***************************************************************************)
(* State                                                                   *)
(***************************************************************************)
VARIABLES
    entry,        \* "Phase5": RunPhase5MonteCarloSimulation,
                  \* "Optimized": OptimizedMonteCarloSimulation
    config,       \* Seed, NumIterations (NumTrials), SNRRange, UseParallel, NumWorkers
    callsLeft,    \* invocations the caller still makes after the current one
    first,        \* what the first invocation returned, once it has
    pc,           \* position of the calling goroutine
    seed,         \* config.Seed as the invocation uses it
    crypto,       \* the call of generateCryptoSeed: made or not, and its outcome
    defaultRng,   \* the process-wide default generator
    mainRand,     \* generator of the sequential path
    pass,         \* scheme of the current simulateSNRPerformance* call
    sendIdx,      \* loop index of the calling goroutine
    jobs,         \* jobs channel
    jobsClosed,
    resChan,      \* result channels, by scheme
    resClosed,
    closer,       \* position of the goroutine that waits for the workers
    wpc,          \* position of each worker
    wjob,         \* the job a worker holds
    workerRand,   \* private generator of each worker
    wtrial,       \* measurements a worker has taken for its job
    results,      \* result arrays, by scheme
    ret,          \* what the invocation returned, once it has
    pulls,        \* history: number of times each job index was received
    pullLog,      \* history: the receives from the jobs channel, in order
    execs,        \* history: by scheme and index, who ran how many trials
    sent,         \* history: by scheme, the indices of the results sent, in order
    rngUsers,     \* history: goroutines that drew from each generator
    link,         \* the generator behind distuv.Normal{}.Rand() in this build:
                  \* "math/rand": the default generator rand.Seed seeds,
                  \* "own": a process-wide generator of the library
    numCPU,       \* runtime.NumCPU()
    upc,          \* position of a caller of the single functions
    ucall,        \* the function it calls and the arguments
    uout,         \* what the call returned
    heap,         \* the slices' backing arrays, by address
    heapBefore,   \* history: the backing arrays when the call was made
    frame,        \* the Signals the call holds, each a pair of addresses
    steps,        \* history: the steps of the trial so far
    urng          \* the generator handed to the call, and history: the number
                  \* of NormFloat64 draws made from it

vars == <<entry, config, callsLeft, first, pc, seed, crypto, defaultRng,
          mainRand, pass, sendIdx, jobs, jobsClosed, resChan, resClosed,
          closer, wpc, wjob, workerRand, wtrial, results, ret,
          pulls, pullLog, execs, sent, rngUsers,
          link, numCPU, upc, ucall, uout, heap, heapBefore, frame, steps,
          urng>>

Workers == 0..(MaxWorkers - 1)
Schemes == {"AM", "FM"}
Sweeps == {[i \in 1..n |-> SweepPoint(i)] : n \in 0..MaxSweep}
SweepLen == Len(config.SNRRange)
Indices == 0..(SweepLen - 1)

\* channels one slot short of the sweep
ChanCapShort == Len(config.SNRRange) - 1

\* capacity of the jobs channel and of each result channel
ChanCap == Len(config.SNRRange)

\* make([]PerformanceResult, len(snrRange))
MakeResults == [i \in 1..SweepLen |-> ZeroResult]

\* the calling goroutine, as a member of the sets of goroutines
MainG == -1

NoExecs == [m \in Schemes |-> [i \in Indices |-> [who |-> {}, n |-> 0]]]
NoSent == [m \in Schemes |-> <<>>]

\* what a worker holds between jobs: the zero job
NoJob == IF entry = "Phase5" THEN [snrIndex |-> 0, targetSNR |-> 0] ELSE 0

NoStats == [TotalTrials |-> 0, WorkersUsed |-> 0]
NoRet == [am |-> <<>>, fm |-> <<>>, nil |-> TRUE, stats |-> NoStats,
          err |-> FALSE]
NoFirst == [done |-> FALSE, am |-> <<>>, fm |-> <<>>, UseParallel |-> FALSE,
            NumWorkers |-> 0]
NoCrypto == [called |-> FALSE, ok |-> TRUE, value |-> 0]
NoChans == [m \in Schemes |-> <<>>]
NoneClosed == [m \in Schemes |-> FALSE]
NoUsers == [default |-> {}, main |-> {}, worker |-> [w \in Workers |-> {}]]

\* state of one invocation before it starts
FreshCall ==
    /\ seed = config.Seed
    /\ crypto = NoCrypto
    /\ mainRand = 0
    /\ pass = "AM"
    /\ sendIdx = 0
    /\ jobs = <<>>
    /\ jobsClosed = FALSE
    /\ resChan = NoChans
    /\ resClosed = NoneClosed
    /\ closer = "off"
    /\ wpc = [w \in Workers |-> "off"]
    /\ wjob = [w \in Workers |-> NoJob]
    /\ workerRand = [w \in Workers |-> 0]
    /\ wtrial = [w \in Workers |-> <<>>]
    /\ results = NoChans
    /\ ret = NoRet
    /\ pulls = [i \in Indices |-> 0]
    /\ pullLog = <<>>
    /\ execs = NoExecs
    /\ sent = NoSent
    /\ rngUsers = NoUsers

\* the builds: which generator distuv.Normal draws from when Src is nil
Links == {"math/rand", "own"}

\* the generator addAWGN draws from, after rand.Seed(s)
RandSeed(g, s) == IF link = "math/rand" THEN NewSource(s) ELSE g

NoCall == [fn |-> "", modType |-> "", params |-> amParams, snrDB |-> 0,
           seed |-> 0, values |-> <<>>, other |-> <<>>, measurements |-> <<>>,
           results |-> <<>>, numIterations |-> 0]
\* maxCorr and bestDelay before the search of alignSignals: maxCorr is -Inf,
\* below every correlation; after it, maxCorr is the quotient sum / count
NoBest == [found |-> FALSE, sum |-> 0, count |-> 1, delay |-> 0]

NoOut == [panicked |-> FALSE, n |-> 0, f |-> Fin(0), values |-> <<>>,
          values2 |-> <<>>, result |-> ZeroResult, err |-> FALSE,
          index |-> 0, measurements |-> <<>>,
          i |-> 0, start |-> 0, end |-> 0, count |-> 0, reads |-> {},
          divided |-> {}, best |-> NoBest]

\* no generator handed to the call
NoRng == [state |-> 0, draws |-> 0]

\* the generator after k calls of rng.NormFloat64()
DrawFrom(rng, k) == [state |-> Advance(rng.state, k), draws |-> rng.draws + k]

\* a Signal: the addresses of its Time and Values arrays (0: nil)
NoSignal == [Time |-> 0, Values |-> 0]
NoFrame == [input |-> NoSignal, output |-> NoSignal,
            originalMessage |-> NoSignal, modulatedSignal |-> NoSignal,
            noisySignal |-> NoSignal, demodulatedSignal |-> NoSignal]

\* Signal{Time: time, Values: values} in two newly made arrays
NewSignal(h, time, values) ==
    [heap |-> h \o <<time, values>>,
     sig |-> [Time |-> Len(h) + 1, Values |-> Len(h) + 2]]

\* no caller of the single functions
UnitOff ==
    /\ upc = "off"
    /\ ucall = NoCall
    /\ uout = NoOut
    /\ heap = <<>>
    /\ heapBefore = <<>>
    /\ frame = NoFrame
    /\ steps = <<>>
    /\ urng = NoRng

Init ==
    /\ entry \in {"Phase5", "Optimized"}
    /\ link = "math/rand"    \* the runs differ by build only in the noise values
    /\ numCPU = MaxWorkers
    /\ UnitOff
    /\ config \in [Seed : Seeds, NumIterations : 1..MaxIterations,
                   SNRRange : Sweeps, UseParallel : BOOLEAN,
                   NumWorkers : 0..MaxWorkers]
    /\ callsLeft \in (IF entry = "Phase5" THEN {0, 1} ELSE {0})
    /\ first = NoFirst
    /\ pc = "call"
    /\ defaultRng = 0
    /\ FreshCall

unit == <<upc, ucall, uout, heap, heapBefore, frame, steps, urng>>
caller == <<entry, config, callsLeft, first>>
driver == <<caller, link, numCPU, unit>>
seeding == <<seed, crypto>>
chans == <<jobs, jobsClosed, resChan, resClosed>>
wlocal == <<wjob, wtrial>>
hist == <<pulls, pullLog, execs, sent, rngUsers>>

\* jobs <- j with the jobs queued in front
EnqueueFront(q, j) == <<j>> \o q

\* jobs <- j
Enqueue(q, j) == Append(q, j)

\* a receive: the worker and the index of the job it got
Pull(w, idx) == [worker |-> w, index |-> idx]

\* the message a worker sends for the job at index idx
ResultMsg(idx, result) == [index |-> idx, result |-> result]

\* a merge in arrival order: the result goes to the first free position
StoreInArrivalOrder(arr, msg) ==
    LET k == CHOOSE k \in 1..Len(arr) :
                 /\ arr[k] = ZeroResult
                 /\ \A j \in 1..(k - 1) : arr[j] # ZeroResult
    IN  [arr EXCEPT ![k] = msg.result]

\* results[result.index] = result.result
Store(arr, msg) == [arr EXCEPT ![msg.index + 1] = msg.result]

\* a receive that leaves the job in the queue
DequeueKeep(q) == q

\* the jobs channel after a receive
Dequeue(q) == Tail(q)

\* a sequential path that goes on with the stream the process was left with
MainRandSourceStale == defaultRng

\* the generator of the sequential path: rand.New(rand.NewSource(config.Seed))
MainRandSource == NewSource(config.Seed)

\* a seed step that consults the secure random source whatever the seed
AlwaysCryptoSeed == TRUE

\* if config.Seed == 0
NeedsCryptoSeed == config.Seed = 0

\* worker seeds that start one above the configured seed
WorkerSeedFromOne(workerID) == seed + workerID + 1

\* config.Seed + int64(workerID)
WorkerSeed(workerID) == seed + workerID

\* the workers started by "for w := 0; w < numWorkers; w++ { go ... }"
Spawned == [w \in Workers |-> IF w < config.NumWorkers THEN "recv" ELSE "off"]

\* wg.Wait() returns
AllWorkersDone == \A w \in Workers : wpc[w] \in {"off", "exit"}

RanTrials(m, idx, g, k) ==
    [execs EXCEPT ![m][idx] = [who |-> @.who \cup {g}, n |-> @.n + k]]

(***************************************************************************)
(* RunPhase5MonteCarloSimulation                                           *)
(***************************************************************************)
\* seeds the default generator and enters the parallel or sequential path
P5Call ==
    /\ entry = "Phase5" /\ pc = "call"
    /\ defaultRng' = RandSeed(defaultRng, config.Seed)
    /\ results' = [m \in Schemes |-> MakeResults]
    /\ IF config.UseParallel
       THEN /\ wpc' = Spawned
            /\ workerRand' = [w \in Workers |->
                  IF w < config.NumWorkers THEN NewSource(WorkerSeed(w)) ELSE 0]
            /\ pc' = "send"
            /\ UNCHANGED mainRand
       ELSE /\ mainRand' = MainRandSource
            /\ pc' = "seq"
            /\ UNCHANGED <<wpc, workerRand>>
    /\ UNCHANGED <<driver, seeding, pass, sendIdx, chans, closer, wlocal, ret,
                   hist>>

\* jobs <- job{snrIndex: i, targetSNR: snr}
P5SendJob ==
    /\ entry = "Phase5" /\ pc = "send"
    /\ sendIdx < SweepLen
    /\ Len(jobs) < ChanCap
    /\ jobs' = Enqueue(jobs, [snrIndex |-> sendIdx,
                              targetSNR |-> config.SNRRange[sendIdx + 1]])
    /\ sendIdx' = sendIdx + 1
    /\ UNCHANGED <<driver, pc, seeding, defaultRng, mainRand, pass, jobsClosed,
                   resChan, resClosed, closer, wpc, wlocal, workerRand,
                   results, ret, hist>>

\* close(jobs), then the goroutine that waits for the workers is started
P5CloseJobs ==
    /\ entry = "Phase5" /\ pc = "send"
    /\ sendIdx = SweepLen
    /\ jobsClosed' = TRUE
    /\ closer' = "wait"
    /\ pc' = "collectAM"
    /\ UNCHANGED <<driver, seeding, defaultRng, mainRand, pass, sendIdx, jobs,
                   resChan, resClosed, wpc, wlocal, workerRand, results, ret,
                   hist>>

\* for j := range jobs
P5WorkerRecv(w) ==
    /\ entry = "Phase5" /\ wpc[w] = "recv"
    /\ IF jobs # <<>>
       THEN /\ wjob' = [wjob EXCEPT ![w] = Head(jobs)]
            /\ jobs' = Dequeue(jobs)
            /\ pulls' = [pulls EXCEPT ![Head(jobs).snrIndex] = @ + 1]
            /\ pullLog' = Append(pullLog, Pull(w, Head(jobs).snrIndex))
            /\ wpc' = [wpc EXCEPT ![w] = "am"]
       ELSE /\ jobsClosed
            /\ wpc' = [wpc EXCEPT ![w] = "exit"]
            /\ UNCHANGED <<wjob, jobs, pulls, pullLog>>
    /\ UNCHANGED <<driver, pc, seeding, defaultRng, mainRand, pass, sendIdx,
                   jobsClosed, resChan, resClosed, closer, wtrial,
                   workerRand, results, ret, execs, sent, rngUsers>>

\* the AM (next = "fm") or FM (next = "recv") half of the worker's loop body
P5WorkerRun(w, m, next) ==
    LET j == wjob[w]
        r == runSingleSNRSimulation(m, ParamsOf(m), j.targetSNR,
                                    config.NumIterations, workerRand[w])
    IN  /\ Len(resChan[m]) < ChanCap
        /\ resChan' = [resChan EXCEPT ![m] =
              Append(@, ResultMsg(j.snrIndex,
                                  [r EXCEPT !.InputSNR_dB = j.targetSNR]))]
        /\ workerRand' = [workerRand EXCEPT ![w] =
              RngAfterPoint(ParamsOf(m), config.NumIterations, @)]
        /\ wpc' = [wpc EXCEPT ![w] = next]
        /\ wjob' = [wjob EXCEPT ![w] = IF next = "recv" THEN NoJob ELSE @]
        /\ execs' = RanTrials(m, j.snrIndex, w, config.NumIterations)
        /\ sent' = [sent EXCEPT ![m] = Append(@, j.snrIndex)]
        /\ rngUsers' = [rngUsers EXCEPT !.worker[w] = @ \cup {w}]
        /\ UNCHANGED <<driver, pc, seeding, defaultRng, mainRand, pass,
                       sendIdx, jobs, jobsClosed, resClosed, closer, wtrial,
                       results, ret, pulls, pullLog>>

P5WorkerAM(w) == entry = "Phase5" /\ wpc[w] = "am" /\ P5WorkerRun(w, "AM", "fm")
P5WorkerFM(w) == entry = "Phase5" /\ wpc[w] = "fm" /\ P5WorkerRun(w, "FM", "recv")

\* wg.Wait(); close(amResultsChan)
P5CloserAM ==
    /\ entry = "Phase5" /\ closer = "wait"
    /\ AllWorkersDone
    /\ resClosed' = [resClosed EXCEPT !["AM"] = TRUE]
    /\ closer' = "closeFM"
    /\ UNCHANGED <<driver, pc, seeding, defaultRng, mainRand, pass, sendIdx,
                   jobs, jobsClosed, resChan, wpc, wlocal, workerRand, results,
                   ret, hist>>

\* close(fmResultsChan)
P5CloserFM ==
    /\ entry = "Phase5" /\ closer = "closeFM"
    /\ resClosed' = [resClosed EXCEPT !["FM"] = TRUE]
    /\ closer' = "exit"
    /\ UNCHANGED <<driver, pc, seeding, defaultRng, mainRand, pass, sendIdx,
                   jobs, jobsClosed, resChan, wpc, wlocal, workerRand, results,
                   ret, hist>>

\* for result := range ch: one receive, or the end of the loop
Collect(m, next) ==
    /\ IF resChan[m] # <<>>
       THEN /\ results' = [results EXCEPT ![m] = Store(@, Head(resChan[m]))]
            /\ resChan' = [resChan EXCEPT ![m] = Tail(@)]
            /\ UNCHANGED pc
       ELSE /\ resClosed[m]
            /\ pc' = next
            /\ UNCHANGED <<results, resChan>>

P5CollectAM ==
    /\ entry = "Phase5" /\ pc = "collectAM"
    /\ Collect("AM", "collectFM")
    /\ UNCHANGED <<driver, seeding, defaultRng, mainRand, pass, sendIdx, jobs,
                   jobsClosed, resClosed, closer, wpc, wlocal, workerRand, ret,
                   hist>>

P5CollectFM ==
    /\ entry = "Phase5" /\ pc = "collectFM"
    /\ Collect("FM", "return")
    /\ UNCHANGED <<driver, seeding, defaultRng, mainRand, pass, sendIdx, jobs,
                   jobsClosed, resClosed, closer, wpc, wlocal, workerRand, ret,
                   hist>>

\* one iteration of the loop of runSequentialMonteCarloSimulation, or its end
P5Seq ==
    /\ entry = "Phase5" /\ pc = "seq"
    /\ IF sendIdx < SweepLen
       THEN LET snr == config.SNRRange[sendIdx + 1]
                afterAM == RngAfterPoint(amParams, config.NumIterations, mainRand)
                amResult == runSingleSNRSimulation("AM", amParams, snr,
                                config.NumIterations, mainRand)
                fmResult == runSingleSNRSimulation("FM", fmParams, snr,
                                config.NumIterations, afterAM)
            IN  /\ results' =
                      [results EXCEPT
                         !["AM"][sendIdx + 1] = [amResult EXCEPT !.InputSNR_dB = snr],
                         !["FM"][sendIdx + 1] = [fmResult EXCEPT !.InputSNR_dB = snr]]
                /\ mainRand' = RngAfterPoint(fmParams, config.NumIterations, afterAM)
                /\ sendIdx' = sendIdx + 1
                /\ execs' = [execs EXCEPT
                      !["AM"][sendIdx] = [who |-> @.who \cup {MainG},
                                          n |-> @.n + config.NumIterations],
                      !["FM"][sendIdx] = [who |-> @.who \cup {MainG},
                                          n |-> @.n + config.NumIterations]]
                /\ rngUsers' = [rngUsers EXCEPT !.main = @ \cup {MainG}]
                /\ UNCHANGED pc
       ELSE /\ pc' = "return"
            /\ UNCHANGED <<results, mainRand, sendIdx, execs, rngUsers>>
    /\ UNCHANGED <<driver, seeding, defaultRng, pass, chans, closer, wpc,
                   wlocal, workerRand, ret, pulls, pullLog, sent>>

\* the statistics and the return of RunPhase5MonteCarloSimulation
P5Return ==
    /\ entry = "Phase5" /\ pc = "return"
    /\ ret' = [am |-> results["AM"], fm |-> results["FM"], nil |-> FALSE,
               stats |-> [TotalTrials |-> config.NumIterations * SweepLen * 2,
                          WorkersUsed |-> config.NumWorkers],
               err |-> FALSE]
    /\ pc' = "returned"
    /\ UNCHANGED <<driver, seeding, defaultRng, mainRand, pass, sendIdx, chans,
                   closer, wpc, wlocal, workerRand, results, hist>>

(***************************************************************************)
(* OptimizedMonteCarloSimulation                                           *)
(***************************************************************************)
\* one SNR point of simulateSNRPerformance: numTrials trials in sequence on
\* the default generator
simulateSNRPoint(modType, params, targetSNR, numTrials, s) ==
    Local(Measurements(modType, params, targetSNR, numTrials, s),
          LAMBDA measurements :
              Aggregate(modType, targetSNR, numTrials, measurements))

\* if config.UseParallel && config.NumWorkers > 1
OptParallel == config.UseParallel /\ config.NumWorkers > 1

\* the start of simulateSNRPerformanceParallel(m, ...) or of
\* simulateSNRPerformance(m, ...)
StartPass(m) ==
    /\ pass' = m
    /\ sendIdx' = 0
    /\ results' = [results EXCEPT ![m] = MakeResults]
    /\ IF OptParallel
       THEN /\ wpc' = Spawned
            /\ jobs' = <<>>
            /\ jobsClosed' = FALSE
            /\ closer' = "off"
            /\ pulls' = [i \in Indices |-> 0]
            /\ pullLog' = <<>>
            /\ pc' = "send"
       ELSE /\ pc' = "seq"
            /\ UNCHANGED <<wpc, jobs, jobsClosed, closer, pulls, pullLog>>

\* generateCryptoSeed fails: the error is returned
OptCallFails ==
    /\ entry = "Optimized" /\ pc = "call"
    /\ NeedsCryptoSeed
    /\ crypto' = [called |-> TRUE, ok |-> FALSE, value |-> 0]
    /\ ret' = [am |-> <<>>, fm |-> <<>>, nil |-> TRUE,
               stats |-> NoStats,
               err |-> TRUE]
    /\ pc' = "returned"
    /\ UNCHANGED <<driver, seed, defaultRng, mainRand, pass, sendIdx, chans,
                   closer, wpc, wlocal, workerRand, results, hist>>

\* the seed is settled, the default generator seeded, and the AM pass starts
OptCall ==
    /\ entry = "Optimized" /\ pc = "call"
    /\ IF NeedsCryptoSeed
       THEN \E v \in CryptoSeeds :
               /\ crypto' = [called |-> TRUE, ok |-> TRUE, value |-> v]
               /\ seed' = v
       ELSE UNCHANGED <<seed, crypto>>
    /\ defaultRng' = RandSeed(defaultRng, seed')
    /\ StartPass("AM")
    /\ UNCHANGED <<driver, mainRand, resChan, resClosed, wlocal, workerRand,
                   ret, execs, sent, rngUsers>>

\* jobs <- i
OptSendJob ==
    /\ entry = "Optimized" /\ pc = "send"
    /\ sendIdx < SweepLen
    /\ Len(jobs) < ChanCap
    /\ jobs' = Enqueue(jobs, sendIdx)
    /\ sendIdx' = sendIdx + 1
    /\ UNCHANGED <<driver, pc, seeding, defaultRng, mainRand, pass, jobsClosed,
                   resChan, resClosed, closer, wpc, wlocal, workerRand,
                   results, ret, hist>>

\* close(jobs), then the goroutine that waits for the workers is started
OptCloseJobs ==
    /\ entry = "Optimized" /\ pc = "send"
    /\ sendIdx = SweepLen
    /\ jobsClosed' = TRUE
    /\ closer' = "wait"
    /\ pc' = "collect"
    /\ UNCHANGED <<driver, seeding, defaultRng, mainRand, pass, sendIdx, jobs,
                   resChan, resClosed, wpc, wlocal, workerRand, results, ret,
                   hist>>

\* for snrIndex := range jobs
OptWorkerRecv(w) ==
    /\ entry = "Optimized" /\ wpc[w] = "recv"
    /\ IF jobs # <<>>
       THEN /\ wjob' = [wjob EXCEPT ![w] = Head(jobs)]
            /\ wtrial' = [wtrial EXCEPT ![w] = <<>>]
            /\ jobs' = Dequeue(jobs)
            /\ pulls' = [pulls EXCEPT ![Head(jobs)] = @ + 1]
            /\ pullLog' = Append(pullLog, Pull(w, Head(jobs)))
            /\ wpc' = [wpc EXCEPT ![w] = "trial"]
       ELSE /\ jobsClosed
            /\ wpc' = [wpc EXCEPT ![w] = "exit"]
            /\ UNCHANGED <<wjob, wtrial, jobs, pulls, pullLog>>
    /\ UNCHANGED <<driver, pc, seeding, defaultRng, mainRand, pass, sendIdx,
                   jobsClosed, resChan, resClosed, closer, workerRand, results,
                   ret, execs, sent, rngUsers>>

\* one trial of the worker's loop: addAWGN draws the noise of the trial from
\* the default generator, which every worker of the pool draws from; the
\* trials of the workers interleave on that one stream
OptWorkerTrial(w) ==
    /\ entry = "Optimized" /\ wpc[w] = "trial"
    /\ LET params == ParamsOf(pass)
           targetSNR == config.SNRRange[wjob[w] + 1]
           outputSNR == Trial(pass, params, targetSNR, defaultRng)
       IN  /\ defaultRng' = Advance(defaultRng, NumSamples(params))
           /\ rngUsers' = [rngUsers EXCEPT !.default = @ \cup {w}]
           /\ wtrial' = [wtrial EXCEPT ![w] = Append(@, outputSNR)]
           /\ execs' = RanTrials(pass, wjob[w], w, 1)
           /\ wpc' = [wpc EXCEPT ![w] =
                         IF Len(wtrial[w]) + 1 < config.NumIterations
                         THEN "trial" ELSE "send"]
    /\ UNCHANGED <<driver, pc, seeding, mainRand, pass, sendIdx, chans, closer,
                   wjob, workerRand, results, ret, pulls, pullLog, sent>>

\* resultsChan <- {index, result}
OptWorkerSend(w) ==
    /\ entry = "Optimized" /\ wpc[w] = "send"
    /\ Len(resChan[pass]) < ChanCap
    /\ resChan' = [resChan EXCEPT ![pass] =
          Append(@, ResultMsg(wjob[w],
                     Aggregate(pass, config.SNRRange[wjob[w] + 1],
                               config.NumIterations, wtrial[w])))]
    /\ sent' = [sent EXCEPT ![pass] = Append(@, wjob[w])]
    /\ wpc' = [wpc EXCEPT ![w] = "recv"]
    /\ wjob' = [wjob EXCEPT ![w] = NoJob]
    /\ wtrial' = [wtrial EXCEPT ![w] = <<>>]
    /\ UNCHANGED <<driver, pc, seeding, defaultRng, mainRand, pass, sendIdx,
                   jobs, jobsClosed, resClosed, closer, workerRand,
                   results, ret, pulls, pullLog, execs, rngUsers>>

\* wg.Wait(); close(resultsChan)
OptCloser ==
    /\ entry = "Optimized" /\ closer = "wait"
    /\ AllWorkersDone
    /\ resClosed' = [resClosed EXCEPT ![pass] = TRUE]
    /\ closer' = "exit"
    /\ UNCHANGED <<driver, pc, seeding, defaultRng, mainRand, pass, sendIdx,
                   jobs, jobsClosed, resChan, wpc, wlocal, workerRand, results,
                   ret, hist>>

\* for result := range resultsChan; after the AM pass the FM pass starts
OptCollect ==
    /\ entry = "Optimized" /\ pc = "collect"
    /\ IF resChan[pass] # <<>>
       THEN /\ results' = [results EXCEPT ![pass] = Store(@, Head(resChan[pass]))]
            /\ resChan' = [resChan EXCEPT ![pass] = Tail(@)]
            /\ UNCHANGED <<pc, pass, sendIdx, wpc, jobs, jobsClosed, closer,
                           pulls, pullLog>>
       ELSE /\ resClosed[pass]
            /\ UNCHANGED resChan
            /\ IF pass = "AM"
               THEN StartPass("FM")
               ELSE /\ pc' = "return"
                    /\ UNCHANGED <<pass, sendIdx, results, wpc, jobs,
                                   jobsClosed, closer, pulls, pullLog>>
    /\ UNCHANGED <<driver, seeding, defaultRng, mainRand, resClosed, wlocal,
                   workerRand, ret, execs, sent, rngUsers>>

\* one iteration of the loop of simulateSNRPerformance, or its end
OptSeq ==
    /\ entry = "Optimized" /\ pc = "seq"
    /\ IF sendIdx < SweepLen
       THEN /\ results' = [results EXCEPT ![pass][sendIdx + 1] =
                  simulateSNRPoint(pass, ParamsOf(pass),
                      config.SNRRange[sendIdx + 1], config.NumIterations,
                      defaultRng)]
            /\ defaultRng' = RngAfterPoint(ParamsOf(pass),
                                 config.NumIterations, defaultRng)
            /\ sendIdx' = sendIdx + 1
            /\ execs' = RanTrials(pass, sendIdx, MainG, config.NumIterations)
            /\ rngUsers' = [rngUsers EXCEPT !.default = @ \cup {MainG}]
            /\ UNCHANGED <<pc, pass, wpc, jobs, jobsClosed, closer, pulls, pullLog>>
       ELSE /\ UNCHANGED <<defaultRng, execs, rngUsers>>
            /\ IF pass = "AM"
               THEN StartPass("FM")
               ELSE /\ pc' = "return"
                    /\ UNCHANGED <<pass, sendIdx, results, wpc, jobs,
                                   jobsClosed, closer, pulls, pullLog>>
    /\ UNCHANGED <<driver, seeding, mainRand, resChan, resClosed, wlocal,
                   workerRand, ret, sent>>

\* the statistics and the return of OptimizedMonteCarloSimulation
OptReturn ==
    /\ entry = "Optimized" /\ pc = "return"
    /\ ret' = [am |-> results["AM"], fm |-> results["FM"], nil |-> FALSE,
               stats |-> [TotalTrials |-> config.NumIterations * SweepLen * 2,
                          WorkersUsed |-> config.NumWorkers],
               err |-> FALSE]
    /\ pc' = "returned"
    /\ UNCHANGED <<driver, seeding, defaultRng, mainRand, pass, sendIdx, chans,
                   closer, wpc, wlocal, workerRand, results, hist>>

(***************************************************************************)
(* The caller: a second invocation with the same seed, trial count and     *)
(* sweep (VerifyReproducibility, BenchmarkPhase5Performance)               *)
(***************************************************************************)
SecondCall ==
    /\ pc = "returned" /\ callsLeft > 0
    /\ callsLeft' = callsLeft - 1
    /\ first' = [done |-> TRUE, am |-> ret.am, fm |-> ret.fm,
                 UseParallel |-> config.UseParallel,
                 NumWorkers |-> config.NumWorkers]
    /\ \E p \in BOOLEAN, n \in 0..MaxWorkers :
          config' = [config EXCEPT !.UseParallel = p, !.NumWorkers = n]
    /\ pc' = "call"
    /\ seed' = config.Seed
    /\ crypto' = NoCrypto
    /\ mainRand' = 0
    /\ pass' = "AM"
    /\ sendIdx' = 0
    /\ jobs' = <<>>
    /\ jobsClosed' = FALSE
    /\ resChan' = NoChans
    /\ resClosed' = NoneClosed
    /\ closer' = "off"
    /\ wpc' = [w \in Workers |-> "off"]
    /\ wjob' = [w \in Workers |-> NoJob]
    /\ workerRand' = [w \in Workers |-> 0]
    /\ wtrial' = [w \in Workers |-> <<>>]
    /\ results' = NoChans
    /\ ret' = NoRet
    /\ pulls' = [i \in Indices |-> 0]
    /\ pullLog' = <<>>
    /\ execs' = NoExecs
    /\ sent' = NoSent
    /\ rngUsers' = NoUsers
    /\ UNCHANGED <<entry, defaultRng, link, numCPU, unit>>

Next ==
    \/ P5Call
    \/ P5SendJob
    \/ P5CloseJobs
    \/ \E w \in Workers : P5WorkerRecv(w)
    \/ \E w \in Workers : P5WorkerAM(w)
    \/ \E w \in Workers : P5WorkerFM(w)
    \/ P5CloserAM
    \/ P5CloserFM
    \/ P5CollectAM
    \/ P5CollectFM
    \/ P5Seq
    \/ P5Return
    \/ OptCallFails
    \/ OptCall
    \/ OptSendJob
    \/ OptCloseJobs
    \/ \E w \in Workers : OptWorkerRecv(w)
    \/ \E w \in Workers : OptWorkerTrial(w)
    \/ \E w \in Workers : OptWorkerSend(w)
    \/ OptCloser
    \/ OptCollect
    \/ OptSeq
    \/ OptReturn
    \/ SecondCall

Spec == Init /\ [][Next]_vars

\* the invocation takes a worker-pool path
P5ParallelRun == entry = "Phase5" /\ config.UseParallel
OptParallelRun == entry = "Optimized" /\ OptParallel
ParallelRun == (P5ParallelRun \/ OptParallelRun) /\ config.NumWorkers >= 1

\* A run that takes a worker-pool path, called once
FairInit ==
    /\ Init
    /\ callsLeft = 0
    /\ ParallelRun
    /\ config.NumIterations <= MaxFairIterations

\* The goroutines of a worker-pool run: the caller, the workers and the
\* goroutine that closes the result channels
CallerStep ==
    \/ P5Call \/ P5SendJob \/ P5CloseJobs \/ P5CollectAM \/ P5CollectFM
    \/ P5Return
    \/ OptCallFails \/ OptCall \/ OptSendJob \/ OptCloseJobs \/ OptCollect
    \/ OptReturn
WorkerStep(w) ==
    \/ P5WorkerRecv(w) \/ P5WorkerAM(w) \/ P5WorkerFM(w)
    \/ OptWorkerRecv(w) \/ OptWorkerTrial(w) \/ OptWorkerSend(w)
CloserStep == P5CloserAM \/ P5CloserFM \/ OptCloser

FairNext ==
    \/ CallerStep
    \/ \E w \in Workers : WorkerStep(w)
    \/ CloserStep

\* The scheduler runs every goroutine that stays runnable
FairSpec ==
    /\ FairInit
    /\ [][FairNext]_vars
    /\ WF_vars(CallerStep)
    /\ \A w \in Workers : WF_vars(WorkerStep(w))
    /\ WF_vars(CloserStep)

(***************************************************************************)
(* Callers of the single functions (the unit tests' calls): one call at a  *)
(* time, with arguments drawn from small sets                              *)
(***************************************************************************)
\* all variables of the simulation runs but the default generator
program == <<caller, pc, seeding, mainRand, pass, sendIdx, chans, closer,
             wpc, wlocal, workerRand, results, ret, hist>>

Rates == (-MaxRate)..MaxRate
Durations == (-1)..MaxDuration
UnitParams == {[amParams EXCEPT !.SamplingRate = r, !.Duration = d,
                                !.ModulationIdx = k] :
                   r \in Rates, d \in Durations, k \in {1, 2}}

UnitInit ==
    /\ entry = "Unit"
    /\ config = [Seed |-> 1, NumIterations |-> 1, SNRRange |-> <<>>,
                 UseParallel |-> FALSE, NumWorkers |-> 1]
    /\ callsLeft = 0
    /\ first = NoFirst
    /\ pc = "unit"
    /\ defaultRng = 0
    /\ FreshCall
    /\ link \in Links
    /\ numCPU \in 1..MaxCPU
    /\ upc = "idle"
    /\ ucall = NoCall
    /\ uout = NoOut
    /\ heap = <<>>
    /\ heapBefore = <<>>
    /\ frame = NoFrame
    /\ steps = <<>>
    /\ urng = NoRng

Generators == {"generateBaseband", "generateCarrier", "generateAM",
               "generateFM"}

Generate(fn, params) ==
    IF fn = "generateBaseband" THEN generateBaseband(params)
    ELSE IF fn = "generateCarrier" THEN generateCarrier(params)
    ELSE IF fn = "generateAM" THEN generateAM(params)
    ELSE generateFM(params)

\* a call of one generator
CallGenerator ==
    /\ upc = "idle"
    /\ \E fn \in Generators, params \in UnitParams :
          /\ ucall' = [NoCall EXCEPT !.fn = fn, !.params = params]
          /\ IF generateTimeVectorPanics(params)
             THEN /\ upc' = "panicked"
                  /\ uout' = [NoOut EXCEPT !.panicked = TRUE]
             ELSE /\ upc' = "returned"
                  /\ uout' = [NoOut EXCEPT !.values = Generate(fn, params)]
    /\ UNCHANGED <<program, urng, defaultRng, link, numCPU, heap, heapBefore, frame,
                   steps>>

\* the cap of AdaptiveWorkerCount
maxAdaptiveWorkers == 8

AdaptiveWorkerCount ==
    IF numCPU > maxAdaptiveWorkers THEN maxAdaptiveWorkers
    ELSE IF numCPU < 1 THEN 1
    ELSE numCPU

\* NumWorkers of DefaultMonteCarloConfig()
DefaultMonteCarloConfig == numCPU

\* a call of AdaptiveWorkerCount or of DefaultMonteCarloConfig
CallDefaultWorkers ==
    /\ upc = "idle"
    /\ \E fn \in {"AdaptiveWorkerCount", "DefaultMonteCarloConfig"} :
          /\ ucall' = [NoCall EXCEPT !.fn = fn]
          /\ uout' = [NoOut EXCEPT !.n = IF fn = "AdaptiveWorkerCount"
                                         THEN AdaptiveWorkerCount
                                         ELSE DefaultMonteCarloConfig]
    /\ upc' = "returned"
    /\ UNCHANGED <<program, urng, defaultRng, link, numCPU, heap, heapBefore, frame,
                   steps>>

(***************************************************************************)
(* Calls of the noise injectors and of the demodulators on a Signal        *)
(***************************************************************************)
SampleValues == {-2, 0, 2}
SampleSeqs == UNION {[1..n -> SampleValues] : n \in 0..MaxSamples}
SignalFns == {"addAWGN", "addAWGNWithRNG", "demodulateAM", "demodulateFM"}

\* addAWGN: as addAWGNWithRNG, one draw per sample from the generator behind
\* distuv.Normal, in state s
addAWGN(values, snrDB, s) ==
    [k \in 1..Len(values) |->
        NoisySample(values[k], NoiseStdDev(values, snrDB), Advance(s, k - 1))]

\* addAWGNWithRNG on the Signal at sig: a new Signal, Time copied
addAWGNWithRNGSignal(h, sig, snrDB, s) ==
    NewSignal(h, h[sig.Time], addAWGNWithRNG(h[sig.Values], snrDB, s))

\* a demodulateAM that returns only the samples whose window is complete at
\* the left: one sample fewer
demodulateAMSignalShort(h, sig) ==
    NewSignal(h, h[sig.Time],
              SubSeq(demodulateAM(h[sig.Values]), 2, Len(h[sig.Values])))

\* demodulateAM / demodulateFM on the Signal at sig
demodulateAMSignal(h, sig) ==
    NewSignal(h, h[sig.Time], demodulateAM(h[sig.Values]))
demodulateFMSignal(h, sig, params) ==
    NewSignal(h, h[sig.Time], demodulateFM(h[sig.Values], params))

addAWGNSignal(h, sig, snrDB, s) ==
    NewSignal(h, h[sig.Time], addAWGN(h[sig.Values], snrDB, s))

SignalFn(fn, h, sig, snrDB, params, s) ==
    IF fn = "addAWGN" THEN addAWGNSignal(h, sig, snrDB, defaultRng)
    ELSE IF fn = "addAWGNWithRNG" THEN addAWGNWithRNGSignal(h, sig, snrDB, s)
    ELSE IF fn = "demodulateAM" THEN demodulateAMSignal(h, sig)
    ELSE demodulateFMSignal(h, sig, params)

CallSignalFn ==
    /\ upc = "idle"
    /\ \E fn \in SignalFns, values \in SampleSeqs, snrDB \in {0, 10},
          sd \in Seeds :
          LET in == NewSignal(<<>>, [k \in 1..Len(values) |-> k - 1], values)
          IN  /\ ucall' = [NoCall EXCEPT !.fn = fn, !.values = values,
                                         !.snrDB = snrDB, !.seed = sd,
                                         !.params = fmParams]
              /\ heapBefore' = in.heap
              /\ IF fn = "demodulateFM" /\ demodulateFMPanics(values)
                 THEN /\ upc' = "panicked"
                      /\ uout' = [NoOut EXCEPT !.panicked = TRUE]
                      /\ heap' = in.heap
                      /\ frame' = [NoFrame EXCEPT !.input = in.sig]
                 ELSE LET r == SignalFn(fn, in.heap, in.sig, snrDB, fmParams,
                                       NewSource(sd))
                      IN  /\ upc' = "returned"
                          /\ heap' = r.heap
                          /\ frame' = [NoFrame EXCEPT !.input = in.sig,
                                                      !.output = r.sig]
                          /\ uout' = [NoOut EXCEPT
                                         !.values = r.heap[r.sig.Values]]
              /\ defaultRng' = IF fn = "addAWGN"
                               THEN Advance(defaultRng, Len(values))
                               ELSE defaultRng
              /\ urng' = IF fn = "addAWGNWithRNG"
                         THEN DrawFrom([state |-> NewSource(sd), draws |-> 0],
                                       Len(values))
                         ELSE NoRng
    /\ UNCHANGED <<program, link, numCPU, steps>>

\* the test "AWGN Reproducibility with Seed": rand.Seed(testSeed), addAWGN,
\* rand.Seed(testSeed), addAWGN on the same signal
TestAWGNReproducibility ==
    /\ upc = "idle"
    /\ \E testSeed \in Seeds, values \in SampleSeqs, snrDB \in {0, 10} :
          LET g1 == RandSeed(defaultRng, testSeed)
              noisy1 == addAWGN(values, snrDB, g1)
              g2 == RandSeed(Advance(g1, Len(values)), testSeed)
              noisy2 == addAWGN(values, snrDB, g2)
          IN  /\ ucall' = [NoCall EXCEPT !.fn = "TestAWGNReproducibility",
                                         !.values = values, !.snrDB = snrDB,
                                         !.seed = testSeed]
              /\ uout' = [NoOut EXCEPT !.values = noisy1, !.values2 = noisy2]
              /\ defaultRng' = Advance(g2, Len(values))
    /\ upc' = "returned"
    /\ UNCHANGED <<program, urng, link, numCPU, heap, heapBefore, frame, steps>>

(***************************************************************************)
(* Calls of calculateSNR, of the statistics of runSingleSNRSimulation and  *)
(* of ValidateSimulationResults                                            *)
(***************************************************************************)
CallCalculateSNR ==
    /\ upc = "idle"
    /\ \E original \in SampleSeqs, noisy \in SampleSeqs :
          /\ ucall' = [NoCall EXCEPT !.fn = "calculateSNR",
                                     !.values = original, !.other = noisy]
          /\ IF calculateSNRPanics(original, noisy)
             THEN /\ upc' = "panicked"
                  /\ uout' = [NoOut EXCEPT !.panicked = TRUE]
             ELSE /\ upc' = "returned"
                  /\ uout' = [NoOut EXCEPT !.f = calculateSNR(original, noisy)]
    /\ UNCHANGED <<program, urng, defaultRng, link, numCPU, heap, heapBefore, frame,
                   steps>>

\* outputs a trial may give
TrialOutputs == {Fin(-3), Fin(6), NaN, PosInf, NegInf}
MeasurementSeqs == UNION {[1..n -> TrialOutputs] : n \in 0..MaxIterations}

\* the statistics runSingleSNRSimulation takes of its measurements
CallAggregate ==
    /\ upc = "idle"
    /\ \E measurements \in MeasurementSeqs, modType \in Schemes,
          targetSNR \in {0, 10} :
          /\ ucall' = [NoCall EXCEPT !.fn = "aggregate", !.modType = modType,
                                     !.snrDB = targetSNR,
                                     !.measurements = measurements]
          /\ uout' = [NoOut EXCEPT !.result =
                         Aggregate(modType, targetSNR, Len(measurements),
                                   measurements)]
    /\ upc' = "returned"
    /\ UNCHANGED <<program, urng, defaultRng, link, numCPU, heap, heapBefore, frame,
                   steps>>

\* the bound of ValidateSimulationResults on |OutputSNR_dB|
snrBound == 100

IsNaN(x) == x.kind = "nan"
IsInf(x) == x.kind = "inf"
\* x < c for a float64 x and an integer c
FLess(x, c) == (x.kind = "fin" /\ x.val < c) \/ (x.kind = "inf" /\ x.val < 0)
\* x > c
FGreater(x, c) == (x.kind = "fin" /\ x.val > c) \/ (x.kind = "inf" /\ x.val > 0)

\* the three checks of the loop body, in its order
InvalidResult(result) ==
    \/ IsNaN(result.OutputSNR_dB) \/ IsInf(result.OutputSNR_dB)
    \/ FLess(result.StdDev, 0)
    \/ FLess(result.OutputSNR_dB, -snrBound)
    \/ FGreater(result.OutputSNR_dB, snrBound)

\* the loop from index i (1-based) on: the 0-based index it returns an error
\* for, or -1 when it runs to the end
RECURSIVE ValidateFrom(_, _)
ValidateFrom(rs, i) ==
    IF i > Len(rs) THEN -1
    ELSE IF InvalidResult(rs[i]) THEN i - 1
    ELSE ValidateFrom(rs, i + 1)

\* a scan that keeps going and reports the last invalid result
RECURSIVE LastInvalid(_, _)
LastInvalid(rs, i) ==
    IF i < 1 THEN -1
    ELSE IF InvalidResult(rs[i]) THEN i - 1
    ELSE LastInvalid(rs, i - 1)

ValidateLastViolation(rs) ==
    [err |-> LastInvalid(rs, Len(rs)) >= 0,
     index |-> LastInvalid(rs, Len(rs))]

ValidateSimulationResults(rs) ==
    [err |-> ValidateFrom(rs, 1) >= 0,
     index |-> ValidateFrom(rs, 1)]

ResultOutputs == {Fin(-snrBound - 1), Fin(-snrBound), Fin(0), Fin(snrBound),
                  Fin(snrBound + 1), NaN, PosInf, NegInf}
ResultStdDevs == {Fin(-1), Fin(0), NaN, NegInf}
ResultValues ==
    {[ZeroResult EXCEPT !.OutputSNR_dB = o] : o \in ResultOutputs}
    \cup {[ZeroResult EXCEPT !.StdDev = d] : d \in ResultStdDevs}
ResultSeqs == UNION {[1..n -> ResultValues] : n \in 0..MaxSweep}

\* a call of ValidateSimulationResults on a result array at address 1
CallValidate ==
    /\ upc = "idle"
    /\ \E rs \in ResultSeqs :
          /\ ucall' = [NoCall EXCEPT !.fn = "ValidateSimulationResults",
                                     !.results = rs]
          /\ heapBefore' = <<rs>>
          /\ heap' = <<rs>>
          /\ LET v == ValidateSimulationResults(rs)
             IN  uout' = [NoOut EXCEPT !.err = v.err, !.index = v.index]
    /\ upc' = "returned"
    /\ UNCHANGED <<program, urng, defaultRng, link, numCPU, frame, steps>>

(***************************************************************************)
(* One trial of runSingleSNRSimulation, step by step                       *)
(***************************************************************************)
\* rng := rand.New(rand.NewSource(sd)) and the call of
\* runSingleSNRSimulation(modType, params, snrDB, numIterations, rng)
TrialCall ==
    /\ upc = "idle"
    /\ \E modType \in Schemes, params \in UnitParams, snrDB \in {0, 10},
          sd \in Seeds, numIterations \in 1..MaxIterations :
          /\ ucall' = [NoCall EXCEPT !.fn = "trial", !.modType = modType,
                                     !.params = params, !.snrDB = snrDB,
                                     !.seed = sd,
                                     !.numIterations = numIterations]
          /\ urng' = [state |-> NewSource(sd), draws |-> 0]
    /\ upc' = "trial"
    /\ uout' = NoOut
    /\ UNCHANGED <<program, defaultRng, link, numCPU, heap, heapBefore, frame,
                   steps>>

\* the head of the loop body: originalMessage and modulatedSignal
TrialGenerate ==
    /\ upc = "trial"
    /\ IF generateTimeVectorPanics(ucall.params)
       THEN /\ upc' = "panicked"
            /\ uout' = [uout EXCEPT !.panicked = TRUE]
            /\ UNCHANGED <<heap, frame, steps>>
       ELSE LET a == NewSignal(heap, generateTimeVector(ucall.params),
                               generateBaseband(ucall.params))
                b == NewSignal(a.heap, generateTimeVector(ucall.params),
                               Modulate(ucall.modType, ucall.params))
            IN  /\ heap' = b.heap
                /\ frame' = [NoFrame EXCEPT !.originalMessage = a.sig,
                                            !.modulatedSignal = b.sig]
                /\ steps' = <<"generate">>
                /\ upc' = "generated"
                /\ uout' = uout
    /\ UNCHANGED <<program, defaultRng, link, numCPU, ucall, heapBefore, urng>>

\* a noise step that draws from the process-wide default generator
TrialNoiseDefault ==
    /\ upc = "generated"
    /\ LET r == addAWGNSignal(heap, frame.modulatedSignal, ucall.snrDB,
                              defaultRng)
       IN  /\ heap' = r.heap
           /\ frame' = [frame EXCEPT !.noisySignal = r.sig]
           /\ defaultRng' = Advance(defaultRng,
                                    Len(heap[frame.modulatedSignal.Values]))
    /\ steps' = Append(steps, "noise")
    /\ upc' = "noisy"
    /\ UNCHANGED <<program, urng, link, numCPU, ucall, uout, heapBefore>>

\* noisySignal := addAWGNWithRNG(modulatedSignal, targetSNR, rng)
TrialNoise ==
    /\ upc = "generated"
    /\ LET r == addAWGNWithRNGSignal(heap, frame.modulatedSignal, ucall.snrDB,
                                     urng.state)
       IN  /\ heap' = r.heap
           /\ frame' = [frame EXCEPT !.noisySignal = r.sig]
           /\ urng' = DrawFrom(urng, Len(heap[frame.modulatedSignal.Values]))
    /\ steps' = Append(steps, "noise")
    /\ upc' = "noisy"
    /\ UNCHANGED <<program, defaultRng, link, numCPU, ucall, uout, heapBefore>>

TrialDemodulate ==
    /\ upc = "noisy"
    /\ IF ucall.modType = "FM"
          /\ demodulateFMPanics(heap[frame.noisySignal.Values])
       THEN /\ upc' = "panicked"
            /\ uout' = [uout EXCEPT !.panicked = TRUE]
            /\ UNCHANGED <<heap, frame, steps>>
       ELSE LET r == IF ucall.modType = "AM"
                     THEN demodulateAMSignal(heap, frame.noisySignal)
                     ELSE demodulateFMSignal(heap, frame.noisySignal,
                                             ucall.params)
            IN  /\ heap' = r.heap
                /\ frame' = [frame EXCEPT !.demodulatedSignal = r.sig]
                /\ steps' = Append(steps, "demodulate")
                /\ upc' = "demodulated"
                /\ uout' = uout
    /\ UNCHANGED <<program, defaultRng, link, numCPU, ucall, heapBefore, urng>>

\* measurements[trial] = outputSNR; after the last trial the statistics are
\* taken and the PerformanceResult is returned
TrialScore ==
    /\ upc = "demodulated"
    /\ IF calculateSNRPanics(heap[frame.originalMessage.Values],
                             heap[frame.demodulatedSignal.Values])
       THEN /\ upc' = "panicked"
            /\ uout' = [uout EXCEPT !.panicked = TRUE]
            /\ UNCHANGED steps
       ELSE LET outputSNR ==
                    computeOutputSNR(heap[frame.originalMessage.Values],
                                     heap[frame.demodulatedSignal.Values])
                measurements == Append(uout.measurements, outputSNR)
            IN  /\ steps' = Append(steps, "score")
                /\ IF Len(measurements) < ucall.numIterations
                   THEN /\ upc' = "trial"
                        /\ uout' = [uout EXCEPT !.f = outputSNR,
                                        !.measurements = measurements]
                   ELSE /\ upc' = "returned"
                        /\ uout' = [uout EXCEPT !.f = outputSNR,
                                        !.measurements = measurements,
                                        !.result =
                                            Aggregate(ucall.modType, ucall.snrDB,
                                                      ucall.numIterations,
                                                      measurements)]
    /\ UNCHANGED <<program, defaultRng, link, numCPU, ucall, heap, heapBefore,
                   frame, urng>>

\* the caller goes on to its next call
NextCall ==
    /\ upc \in {"returned", "panicked"}
    /\ upc' = "idle"
    /\ ucall' = NoCall
    /\ uout' = NoOut
    /\ heap' = <<>>
    /\ heapBefore' = <<>>
    /\ frame' = NoFrame
    /\ steps' = <<>>
    /\ urng' = NoRng
    /\ UNCHANGED <<program, defaultRng, link, numCPU>>

UnitNext ==
    \/ CallGenerator
    \/ CallCalculateSNR
    \/ CallAggregate
    \/ CallValidate
    \/ CallSignalFn
    \/ TestAWGNReproducibility
    \/ TrialCall
    \/ TrialGenerate
    \/ TrialNoise
    \/ TrialDemodulate
    \/ TrialScore
    \/ CallDefaultWorkers
    \/ NextCall

UnitSpec == UnitInit /\ [][UnitNext]_vars

(***************************************************************************)
(* Calls of alignSignals and of the demodulators on longer signals, the    *)
(* smoothing loop taken one index at a time                                *)
(***************************************************************************)
\* the longest signal given to a demodulator
MaxFilterLen == 23

\* the cap of the search range of alignSignals
maxDelayCap == 100

\* maxDelay := n / 10, at most 100
MaxDelay(n) == Min(n \div 10, maxDelayCap)

\* the sum of reference[i] * signal[i + delay] over lo <= i <= hi (0-based),
\* the terms with i + delay out of range left out
RECURSIVE CorrelationSum(_, _, _, _, _)
CorrelationSum(reference, signal, delay, lo, hi) ==
    IF lo > hi THEN 0
    ELSE IF lo = hi
         THEN (IF lo + delay >= 0 /\ lo + delay < Len(reference)
               THEN reference[lo + 1] * signal[lo + delay + 1]
               ELSE 0)
    ELSE CorrelationSum(reference, signal, delay, lo, (lo + hi) \div 2)
         + CorrelationSum(reference, signal, delay, (lo + hi) \div 2 + 1, hi)

\* count: the number of i in 0..n-1 with 0 <= i + delay < n
Overlap(n, delay) == Max(n - Abs(delay), 0)

\* correlation > maxCorr for the quotients sum / count and best.sum / best.count
Better(sum, count, best) ==
    count > 0 /\ (~best.found \/ sum * best.count > best.sum * count)

\* a shift that wraps around the ends of the signal
AlignedSampleWrapped(signal, i, delay) ==
    signal[((i + delay) % Len(signal)) + 1]

\* aligned[i] for 0-based i
AlignedSample(signal, i, delay) ==
    IF i + delay >= 0 /\ i + delay < Len(signal)
    THEN signal[i + delay + 1] ELSE 0

\* the indices of signal that the search and the shift read
AlignReads(n) ==
    {j \in (-MaxDelay(n))..(n - 1 + MaxDelay(n)) : j >= 0 /\ j < n}

\* alignSignals on two slices of equal length: the new slice
Aligned(signal, delay) ==
    [k \in 1..Len(signal) |-> AlignedSample(signal, k - 1, delay)]

\* Pulse(n, p, a, b): n samples, a at position p and b elsewhere
Pulse(n, p, a, b) == [k \in 1..n |-> IF k = p THEN a ELSE b]
AlignLens == {0, 1, 9, 10, 20}
AlignLevels == {0, 1, 2}
\* signals long enough for the cap of the search range
LongReference == Pulse(1010, 1, 2, 0)
LongSignal == Pulse(1010, 102, 2, 0)
AlignSeqs ==
    {Pulse(n, p, a, b) : n \in AlignLens, p \in {1, 2, 9}, a \in AlignLevels,
                         b \in AlignLevels}

\* the signals given to the demodulators
Pattern(kind, n) ==
    [k \in 1..n |-> IF kind = "zero" THEN 0
                    ELSE IF kind = "step" THEN 2
                    ELSE 2 * SinQ(k)]
DspSeqs ==
    UNION {[1..n -> SampleValues] : n \in 0..(MaxSamples + 1)}
    \cup {Pattern(kind, n) : kind \in {"zero", "step", "carrier"},
                             n \in 3..MaxFilterLen}

DspInit ==
    /\ entry = "Dsp"
    /\ config = [Seed |-> 1, NumIterations |-> 1, SNRRange |-> <<>>,
                 UseParallel |-> FALSE, NumWorkers |-> 1]
    /\ callsLeft = 0
    /\ first = NoFirst
    /\ pc = "unit"
    /\ defaultRng = 0
    /\ FreshCall
    /\ link = "math/rand"
    /\ numCPU = 1
    /\ upc = "idle"
    /\ ucall = NoCall
    /\ uout = NoOut
    /\ heap = <<>>
    /\ heapBefore = <<>>
    /\ frame = NoFrame
    /\ steps = <<>>
    /\ urng = NoRng

\* a call of alignSignals on the slices at addresses 1 and 2, up to its
\* search loop; uout.index is the address of the slice it returns
CallAlignSignals ==
    /\ upc = "idle"
    /\ \E reference \in AlignSeqs \cup {LongReference},
          signal \in AlignSeqs \cup {LongSignal} :
          /\ ucall' = [NoCall EXCEPT !.fn = "alignSignals",
                                     !.values = reference, !.other = signal]
          /\ heapBefore' = <<reference, signal>>
          /\ heap' = <<reference, signal>>
          /\ IF Len(reference) # Len(signal)
             THEN /\ uout' = [NoOut EXCEPT !.values = signal, !.index = 2]
                  /\ upc' = "returned"
             ELSE /\ uout' = [NoOut EXCEPT !.i = -MaxDelay(Len(reference))]
                  /\ upc' = "search"
    /\ UNCHANGED <<program, urng, defaultRng, link, numCPU, frame, steps>>

\* one iteration of the search loop (uout.i is delay), or its end, the shift
\* by bestDelay into a new slice and the return
AlignStep ==
    /\ upc = "search"
    /\ LET reference == ucall.values
           signal == ucall.other
           n == Len(reference)
       IN  IF uout.i <= MaxDelay(n)
           THEN LET sum == CorrelationSum(reference, signal, uout.i, 0, n - 1)
                    count == Overlap(n, uout.i)
                IN  /\ uout' = [uout EXCEPT
                          !.i = @ + 1,
                          !.best = IF Better(sum, count, @)
                                   THEN [found |-> TRUE, sum |-> sum,
                                         count |-> count, delay |-> uout.i]
                                   ELSE @]
                    /\ UNCHANGED <<upc, heap>>
           ELSE /\ uout' = [uout EXCEPT
                      !.n = uout.best.delay,
                      !.values = Aligned(signal, uout.best.delay),
                      !.index = 3,
                      !.reads = AlignReads(n)]
                /\ heap' = Append(heap, Aligned(signal, uout.best.delay))
                /\ upc' = "returned"
    /\ UNCHANGED <<program, urng, defaultRng, link, numCPU, ucall, heapBefore,
                   frame, steps>>

Demodulators == {"demodulateAM", "demodulateFM"}

\* a call of a demodulator, up to its smoothing loop: uout.values2 is what
\* the loop averages, the rectified signal or the discriminator output
CallDemodulator ==
    /\ upc = "idle"
    /\ \E fn \in Demodulators, values \in DspSeqs :
          /\ ucall' = [NoCall EXCEPT !.fn = fn, !.values = values,
                                     !.params = fmParams]
          /\ IF fn = "demodulateFM" /\ demodulateFMPanics(values)
             THEN /\ upc' = "panicked"
                  /\ uout' = [NoOut EXCEPT !.panicked = TRUE]
             ELSE /\ upc' = "filter"
                  /\ uout' = [NoOut EXCEPT
                        !.values = [k \in 1..Len(values) |-> 0],
                        !.values2 =
                            IF fn = "demodulateAM"
                            THEN [k \in 1..Len(values) |-> Abs(values[k])]
                            ELSE [k \in 1..Len(values) |->
                                     Discriminator(values, fmParams, k - 1)],
                        !.divided =
                            IF fn = "demodulateAM" THEN {}
                            ELSE {i \in 0..(Len(values) - 1) :
                                     Divides(values, i)}]
    /\ UNCHANGED <<program, urng, defaultRng, link, numCPU, heap, heapBefore,
                   frame, steps>>

\* one iteration of the smoothing loop, or its end and the return
FilterStep ==
    /\ upc = "filter"
    /\ IF uout.i < Len(uout.values2)
       THEN LET start == WindowStart(uout.i)
                end == WindowEnd(uout.i, Len(uout.values2))
            IN  /\ uout' = [uout EXCEPT
                      !.i = @ + 1,
                      !.start = start,
                      !.end = end,
                      !.count = end - start + 1,
                      !.reads = start..end,
                      !.values[uout.i + 1] = MovingAverage(uout.values2, uout.i)]
                /\ UNCHANGED upc
       ELSE /\ upc' = "returned"
            /\ UNCHANGED uout
    /\ UNCHANGED <<program, urng, defaultRng, link, numCPU, ucall, heap,
                   heapBefore, frame, steps>>

DspNext ==
    \/ CallAlignSignals
    \/ AlignStep
    \/ CallDemodulator
    \/ FilterStep
    \/ NextCall

DspSpec == DspInit /\ [][DspNext]_vars

(***************************************************************************)
(* Properties                                                              *)
(***************************************************************************)
Returned == pc = "returned"

\* the two invocations of the caller have both returned
BothReturned == entry = "Phase5" /\ Returned /\ first.done

SameArrays == ret.am = first.am /\ ret.fm = first.fm

\* number of occurrences of x in the sequence q
Count(q, x) == Cardinality({k \in 1..Len(q) : q[k] = x})

\* trials executed so far in this invocation
RECURSIVE TrialsOf(_, _)
TrialsOf(m, i) == IF i < 0 THEN 0 ELSE execs[m][i].n + TrialsOf(m, i - 1)
TrialsRun == TrialsOf("AM", SweepLen - 1) + TrialsOf("FM", SweepLen - 1)

\* C1: for a fixed seed, trial count and sweep, runParallelMonteCarloSimulation
\* returns the same AM and FM arrays for every worker count >= 1, every
\* assignment of jobs to workers and every completion order.
C1_ParallelResultIndependentOfWorkers ==
    (BothReturned /\ first.UseParallel /\ config.UseParallel
        /\ first.NumWorkers >= 1 /\ config.NumWorkers >= 1)
    => SameArrays

\* C2: two invocations with the identical configuration, UseParallel = true
\* and the same NumWorkers >= 2, return identical result arrays under every
\* interleaving of the goroutines.
C2_ParallelRunsRepeat ==
    (BothReturned /\ first.UseParallel /\ config.UseParallel
        /\ first.NumWorkers = config.NumWorkers /\ config.NumWorkers >= 2)
    => SameArrays

\* C3: two invocations of RunPhase5MonteCarloSimulation with the same
\* configuration and UseParallel = false return identical AM and FM arrays.
C3_SequentialRunsRepeat ==
    (BothReturned /\ ~first.UseParallel /\ ~config.UseParallel)
    => SameArrays

C3_Witness ==
    /\ BothReturned /\ ~first.UseParallel /\ ~config.UseParallel
    /\ SweepLen >= 2 /\ config.Seed # 0
    /\ SameArrays
    /\ \A i \in 1..SweepLen : ret.am[i].NumTrials = config.NumIterations

\* C4: in every parallel run with NumWorkers >= 1 each index of the sweep is
\* received from the job queue exactly once, all trials of a point and scheme
\* are run by the one worker that received it, and exactly one result per
\* index and scheme is sent.
C4_EachJobOnce ==
    ParallelRun =>
        /\ \A i \in Indices : pulls[i] <= 1
        /\ \A m \in Schemes : \A i \in Indices :
              /\ Cardinality(execs[m][i].who) <= 1
              /\ execs[m][i].n <= config.NumIterations
              /\ Count(sent[m], i) <= 1
        /\ (Returned /\ ~ret.err) =>
              /\ \A i \in Indices : pulls[i] = 1
              /\ \A m \in Schemes : \A i \in Indices :
                    /\ Cardinality(execs[m][i].who) = 1
                    /\ execs[m][i].who \subseteq Workers
                    /\ execs[m][i].n = config.NumIterations
                    /\ Count(sent[m], i) = 1
              /\ P5ParallelRun =>
                    \A i \in Indices : execs["AM"][i].who = execs["FM"][i].who

C4_Witness ==
    /\ ParallelRun /\ Returned /\ ~ret.err /\ SweepLen >= 2
    /\ config.NumWorkers >= 2
    /\ config.NumIterations >= 2
    /\ execs["AM"][0].who # execs["AM"][1].who
    /\ \A i \in Indices : pulls[i] = 1

\* C5: after a parallel run with NumWorkers >= 1 returns, position i of the AM
\* array and of the FM array holds the result computed for SNRRange[i],
\* whatever order the workers finished in.
C5_ResultsInIndexOrder ==
    (ParallelRun /\ Returned /\ ~ret.err) =>
        /\ Len(ret.am) = SweepLen /\ Len(ret.fm) = SweepLen
        /\ \A i \in 1..SweepLen :
              /\ ret.am[i].InputSNR_dB = config.SNRRange[i]
              /\ ret.am[i].ModulationType = "AM"
              /\ ret.fm[i].InputSNR_dB = config.SNRRange[i]
              /\ ret.fm[i].ModulationType = "FM"

\* a run whose results were sent out of index order
C5_Witness ==
    /\ ParallelRun /\ Returned /\ ~ret.err /\ SweepLen >= 2
    /\ sent["AM"][1] > sent["AM"][2]
    /\ ret.am[1].InputSNR_dB = config.SNRRange[1]
    /\ ret.am[2].InputSNR_dB = config.SNRRange[2]

\* C6: in every parallel path no generator instance, the process-wide default
\* generator included, is used by two workers.
C6_NoSharedGenerator ==
    ParallelRun =>
        /\ Cardinality(rngUsers.default) <= 1
        /\ Cardinality(rngUsers.main) <= 1
        /\ \A w \in Workers : rngUsers.worker[w] \subseteq {w}

\* C8: whenever RunPhase5MonteCarloSimulation returns, sequential or parallel
\* and with any NumWorkers including 0, every entry of both arrays aggregates
\* exactly NumIterations trials at its SNR point.
C8_EveryEntryAggregated ==
    (entry = "Phase5" /\ Returned) =>
        /\ Len(ret.am) = SweepLen /\ Len(ret.fm) = SweepLen
        /\ \A i \in 1..SweepLen :
              /\ ret.am[i].NumTrials = config.NumIterations
              /\ ret.am[i].InputSNR_dB = config.SNRRange[i]
              /\ ret.fm[i].NumTrials = config.NumIterations
              /\ ret.fm[i].InputSNR_dB = config.SNRRange[i]

\* C9: OptimizedMonteCarloSimulation fails only at seed generation: with
\* Seed = 0 and a failing secure random source it returns the error with nil
\* arrays and zero statistics and has run no trial; with Seed # 0 the source is
\* never consulted and the error is nil.
C9_FailsOnlyAtSeedGeneration ==
    entry = "Optimized" =>
        /\ config.Seed # 0 => ~crypto.called
        /\ Returned =>
              /\ ret.err <=> (config.Seed = 0 /\ crypto.called /\ ~crypto.ok)
              /\ ret.err => (ret.nil /\ ret.am = <<>> /\ ret.fm = <<>>
                             /\ ret.stats = NoStats /\ TrialsRun = 0)
              /\ config.Seed # 0 => ~ret.err

C9_WitnessFails == entry = "Optimized" /\ Returned /\ ret.err

C9_Witness ==
    /\ entry = "Optimized" /\ Returned /\ ~ret.err /\ config.Seed # 0
    /\ TrialsRun > 0

\* C10: for both entry points, a run whose Seed is zero obtains its seed from
\* the secure random source before any trial and does not use the literal
\* seed 0.
C10_ZeroSeedIsRandomised ==
    (config.Seed = 0 /\ TrialsRun > 0) =>
        (crypto.called /\ crypto.ok /\ seed = crypto.value)


\* C7: under fair scheduling a parallel run with NumWorkers >= 1 terminates
\* for every sweep length: every job is consumed, every worker leaves its
\* loop, both result channels get closed and the call returns.
C7_ParallelRunTerminates ==
    (ParallelRun /\ pc = "call") ~>
        (/\ Returned
         /\ AllWorkersDone
         /\ jobs = <<>>
         /\ ret.err \/ (closer = "exit" /\ resClosed["AM"] /\ resClosed["FM"]
                        /\ resChan["AM"] = <<>> /\ resChan["FM"] = <<>>))

\* a returned run with more workers than SNR points
C7_Witness ==
    /\ ParallelRun /\ Returned /\ ~ret.err
    /\ SweepLen >= 1 /\ config.NumWorkers > SweepLen
    /\ AllWorkersDone /\ closer = "exit"


\* C12: every generator returns a Signal with zero samples, and does not
\* crash, when SamplingRate x Duration is zero or negative.
C12_NoSamplesForNonPositiveDuration ==
    (/\ ucall.fn \in Generators
     /\ upc \in {"returned", "panicked"}
     /\ NumSamples(ucall.params) <= 0)
        => (upc = "returned" /\ uout.values = <<>>)

\* C20: the default number of workers is the CPU count clamped to [1, 8].
C20_DefaultWorkersClamped ==
    (ucall.fn \in {"AdaptiveWorkerCount", "DefaultMonteCarloConfig"}
     /\ upc = "returned")
        => uout.n = Min(Max(numCPU, 1), 8)


\* C11: a single trial on a signal of n >= 0 samples completes and returns
\* a number, for AM and for FM: no step aborts.
C11_TrialNeverAborts ==
    (ucall.fn = "trial" /\ NumSamples(ucall.params) >= 0)
        => upc # "panicked"

\* C13: a trial runs generate, inject noise, demodulate, score in this
\* order, and an FM trial (and only an FM trial) aligns the demodulated
\* output between demodulation and scoring.
C13_TrialStepsInOrder ==
    (ucall.fn = "trial" /\ upc = "returned")
        => steps = IF ucall.modType = "FM"
                   THEN <<"generate", "noise", "demodulate", "align", "score">>
                   ELSE <<"generate", "noise", "demodulate", "score">>


\* C16: addAWGN at a finite target SNR on a non-empty all-zero signal
\* returns a signal of the same length that is noise of non-negligible
\* power, not the all-zero input.
C16_ZeroSignalGetsNoise ==
    (/\ ucall.fn = "addAWGN" /\ upc = "returned"
     /\ ucall.values # <<>>
     /\ \A k \in 1..Len(ucall.values) : ucall.values[k] = 0)
        => (/\ Len(uout.values) = Len(ucall.values)
            /\ SumSq(uout.values) > 0)

\* C17: two addAWGN calls on the same signal and target SNR, each made
\* right after seeding the default generator with the same seed, return
\* the same samples.
C17_SeedDeterminesNoise ==
    (ucall.fn = "TestAWGNReproducibility" /\ upc = "returned")
        => uout.values = uout.values2

\* C19: addAWGN, addAWGNWithRNG, demodulateAM and demodulateFM leave the
\* input's Time and Values as they were and return a new Signal of equal
\* length in arrays of its own.
C19_InputKeptOutputFresh ==
    (ucall.fn \in SignalFns /\ upc \in {"returned", "panicked"})
        => (/\ upc = "returned"
            /\ heap[frame.input.Time] = heapBefore[frame.input.Time]
            /\ heap[frame.input.Values] = heapBefore[frame.input.Values]
            /\ {frame.output.Time, frame.output.Values}
                   \cap {frame.input.Time, frame.input.Values} = {}
            /\ frame.output.Time # frame.output.Values
            /\ Len(heap[frame.output.Time]) = Len(heap[frame.input.Time])
            /\ Len(heap[frame.output.Values])
                   = Len(heap[frame.input.Values]))


\* C18: calculateSNR of two equal non-empty signals is +Inf, whatever the
\* signal power (an all-zero signal included), returned as a value.
C18_EqualSignalsGiveInfiniteSNR ==
    (/\ ucall.fn = "calculateSNR" /\ upc \in {"returned", "panicked"}
     /\ ucall.values # <<>> /\ ucall.other = ucall.values)
        => (upc = "returned" /\ uout.f = PosInf)

\* equal all-zero signals have been scored
C18_Witness ==
    /\ ucall.fn = "calculateSNR" /\ upc = "returned"
    /\ ucall.values # <<>> /\ ucall.other = ucall.values
    /\ \A k \in 1..Len(ucall.values) : ucall.values[k] = 0

\* C14: the statistics of an SNR point are taken over all trial outputs:
\* NumTrials is their number, one NaN makes the mean NaN, an infinite output
\* makes it infinite (NaN if both signs occur), finite outputs give their
\* mean and their N-1 standard deviation, and any output that is not finite
\* makes the standard deviation NaN; the aggregation always returns.
C14_NoTrialDropped ==
    (ucall.fn = "aggregate" /\ upc # "idle") =>
        LET ms == ucall.measurements
            n == Len(ms)
            Has(kind, sign) == \E k \in 1..n : ms[k].kind = kind
                                               /\ Sign(ms[k].val) = sign
            AllFinite == \A k \in 1..n : ms[k].kind = "fin"
            total == SumSeq([k \in 1..n |-> ms[k].val])
            mean == Quot(total, n)
            squares == SumSeq([k \in 1..n |-> (ms[k].val - mean)
                                              * (ms[k].val - mean)])
        IN  /\ upc = "returned"
            /\ uout.result.NumTrials = n
            /\ uout.result.OutputSNR_dB =
                   IF n = 0 \/ Has("nan", 0) THEN NaN
                   ELSE IF Has("inf", 1) /\ Has("inf", -1) THEN NaN
                   ELSE IF Has("inf", 1) THEN PosInf
                   ELSE IF Has("inf", -1) THEN NegInf
                   ELSE Fin(mean)
            /\ uout.result.StdDev =
                   IF n = 0 THEN Fin(0)
                   ELSE IF ~AllFinite \/ n = 1 THEN NaN
                   ELSE Fin(ISqrt(Quot(squares, n - 1)))

\* a NaN trial among several has been aggregated
C14_Witness ==
    /\ ucall.fn = "aggregate" /\ upc = "returned"
    /\ Len(ucall.measurements) >= 2
    /\ \E k \in 1..Len(ucall.measurements) : ucall.measurements[k] = NaN
    /\ \E k \in 1..Len(ucall.measurements) :
          ucall.measurements[k].kind = "fin"
    /\ uout.result.OutputSNR_dB = NaN

\* C15: ValidateSimulationResults returns an error exactly when some result
\* has a NaN or infinite OutputSNR_dB, a negative StdDev or an OutputSNR_dB
\* outside [-100, 100]; the error names the smallest such index; the array
\* is left as it was.
C15_ValidateReportsFirstViolation ==
    (ucall.fn = "ValidateSimulationResults" /\ upc = "returned") =>
        LET rs == ucall.results
            Bad(r) ==
                \/ r.OutputSNR_dB.kind \in {"nan", "inf"}
                \/ (r.StdDev.kind = "fin" /\ r.StdDev.val < 0)
                \/ r.StdDev = NegInf
                \/ (r.OutputSNR_dB.kind = "fin"
                    /\ (r.OutputSNR_dB.val < -100 \/ r.OutputSNR_dB.val > 100))
            BadAt == {i \in 1..Len(rs) : Bad(rs[i])}
        IN  /\ uout.err <=> BadAt # {}
            /\ uout.err =>
                   /\ uout.index + 1 \in BadAt
                   /\ \A i \in BadAt : uout.index + 1 <= i
            /\ heap = heapBefore

\* an array with two invalid results has been validated
C15_Witness ==
    /\ ucall.fn = "ValidateSimulationResults" /\ upc = "returned"
    /\ uout.err /\ uout.index >= 0
    /\ Cardinality({i \in 1..Len(ucall.results) :
                       InvalidResult(ucall.results[i])}) >= 2

\* one invocation took the sequential path and the other the worker pool with
\* a single worker
SequentialAndSingleWorker ==
    \/ (~first.UseParallel /\ config.UseParallel /\ config.NumWorkers = 1)
    \/ (first.UseParallel /\ first.NumWorkers = 1 /\ ~config.UseParallel)

\* C21: for the same configuration, runParallelMonteCarloSimulation with one
\* worker returns exactly the AM and FM arrays of
\* runSequentialMonteCarloSimulation.
C21_SingleWorkerEqualsSequential ==
    (BothReturned /\ SequentialAndSingleWorker) => SameArrays

\* a sweep of two points with two trials each has been run both ways
C21_Witness ==
    /\ BothReturned /\ SequentialAndSingleWorker
    /\ SweepLen >= 2 /\ config.NumIterations >= 2
    /\ SameArrays
    /\ \A i \in 1..SweepLen : ret.am[i].NumTrials = config.NumIterations
                              /\ ret.fm[i].ModulationType = "FM"

\* the trials of the call that have had their noise step
NoisedTrials ==
    Len(uout.measurements)
    + (IF upc \in {"noisy", "demodulated", "panicked"}
          /\ frame.noisySignal # NoSignal
       THEN 1 ELSE 0)

\* a step of the call of runSingleSNRSimulation, after the call was made
InTrial == ucall.fn = "trial" /\ upc \notin {"returned", "panicked"}

\* C22: the trials of runSingleSNRSimulation change nothing but the generator
\* they were handed (no other generator, no array that existed, nothing of the
\* simulation runs), and each advances it by exactly n draws, n the number of
\* samples of the modulated signal, which is SamplingRate x Duration for AM
\* and FM and every target SNR; a point of NumIterations trials advances it by
\* NumIterations x n draws.
C22_TrialOnlyAdvancesItsGenerator ==
    /\ [](ucall.fn = "trial" =>
            /\ frame.modulatedSignal # NoSignal =>
                  Len(heap[frame.modulatedSignal.Values])
                      = NumSamples(ucall.params)
            /\ NoisedTrials > 0 =>
                  urng.draws = NoisedTrials * NumSamples(ucall.params)
            /\ NoisedTrials = 0 => urng.draws = 0
            /\ urng.state = Advance(NewSource(ucall.seed), urng.draws)
            /\ upc = "returned" =>
                  urng.draws = ucall.numIterations * NumSamples(ucall.params))
    /\ [][InTrial =>
            /\ defaultRng' = defaultRng
            /\ UNCHANGED <<program, link, numCPU, heapBefore, ucall>>
            /\ Len(heap') >= Len(heap)
            /\ \A a \in 1..Len(heap) : heap'[a] = heap[a]]_vars

\* a point of two trials on two samples has returned
C22_Witness ==
    /\ ucall.fn = "trial" /\ upc = "returned"
    /\ ucall.numIterations >= 2
    /\ NumSamples(ucall.params) >= 2
    /\ urng.draws = ucall.numIterations * NumSamples(ucall.params)
    /\ urng.state # NewSource(ucall.seed)

\* the invocation distributes the sweep over a worker pool
PoolRun == P5ParallelRun \/ OptParallelRun

\* the sweep index a job carries
JobIndex(j) == IF entry = "Phase5" THEN j.snrIndex ELSE j

\* C23: the jobs are pulled in FIFO order of their sweep index: the producer
\* enqueues 0, 1, ... in ascending order and its send never finds the channel
\* full, the k-th receive of a pool gets index k-1 (so an earlier receive has
\* the smaller index), the queue holds the indices sent and not yet received
\* in ascending order, and the indices any one worker receives are strictly
\* increasing.
C23_JobsPulledInOrder ==
    PoolRun =>
        /\ (pc = "send" /\ sendIdx < SweepLen) => Len(jobs) < ChanCap
        /\ \A a \in 1..Len(pullLog) : pullLog[a].index = a - 1
        /\ \A k \in 1..Len(jobs) :
              JobIndex(jobs[k]) = Len(pullLog) + k - 1
        /\ pc = "send" => Len(pullLog) + Len(jobs) = sendIdx
        /\ \A a \in 1..Len(pullLog) : \A b \in 1..Len(pullLog) :
              (a < b /\ pullLog[a].worker = pullLog[b].worker)
                  => pullLog[a].index < pullLog[b].index

\* a pool of two workers has returned, one worker having received two jobs
C23_Witness ==
    /\ PoolRun /\ Returned /\ ~ret.err
    /\ config.NumWorkers >= 2
    /\ Len(pullLog) >= 2
    /\ pullLog[1].worker = pullLog[2].worker
    /\ pullLog[1].index < pullLog[2].index

\* alignSignals has returned from a call on slices of equal length
AlignReturned ==
    /\ ucall.fn = "alignSignals" /\ upc = "returned"
    /\ Len(ucall.values) = Len(ucall.other)

\* the dot product of the reference and the candidate at lag d: the sum over
\* i of reference[i] * signal[i + d], terms out of range left out
DotProduct(d) ==
    SumSeq([k \in 1..Len(ucall.values) |->
               IF k + d >= 1 /\ k + d <= Len(ucall.other)
               THEN ucall.values[k] * ucall.other[k + d] ELSE 0])

\* the lags alignSignals searches for slices of n samples
Lags(n) == (-Min(n \div 10, 100))..Min(n \div 10, 100)

\* C24: for inputs of equal length the lag alignSignals chooses maximizes the
\* dot product of the reference and the shifted candidate among all lags of
\* the search window.
C24_LagMaximizesDotProduct ==
    AlignReturned =>
        \A d \in Lags(Len(ucall.values)) : DotProduct(uout.n) >= DotProduct(d)

\* C25: for inputs of equal length n alignSignals returns a new slice of
\* length n, the candidate shifted by one lag d with |d| <= min(n / 10, 100)
\* and zero where the shifted index is out of range; it reads no index outside
\* 0..n-1, and for n < 10 the output equals the candidate.
C25_AlignedIsShiftedCandidate ==
    AlignReturned =>
        LET n == Len(ucall.other)
            d == uout.n
            out == heap[uout.index]
        IN  /\ uout.index \notin {1, 2}
            /\ heap[1] = heapBefore[1] /\ heap[2] = heapBefore[2]
            /\ out = uout.values
            /\ Len(out) = n
            /\ d \in Lags(n)
            /\ \A i \in 0..(n - 1) :
                  out[i + 1] = IF 0 <= i + d /\ i + d < n
                               THEN ucall.other[i + d + 1] ELSE 0
            /\ uout.reads \subseteq 0..(n - 1)
            /\ n < 10 => (d = 0 /\ out = ucall.other)

\* a candidate of ten samples has been shifted by one sample, its non-zero
\* first sample dropped and a zero filled in at the end
C25_Witness ==
    /\ AlignReturned
    /\ Len(ucall.other) = 10
    /\ uout.n = 1
    /\ ucall.other[1] # 0 /\ ucall.other[10] # 0
    /\ uout.values[1] = ucall.other[2]
    /\ uout.values[10] = 0

\* the smoothing loop of a demodulator has done the index uout.i - 1
Smoothed ==
    /\ ucall.fn \in Demodulators /\ upc \in {"filter", "returned"}
    /\ uout.i >= 1

\* C26: in the smoothing loop of both demodulators, for a signal of n >= 1
\* samples and every index i, the window is [max(0, i-10), min(n-1, i+10)]:
\* the indices read are those of the window, all within 0..n-1, and their
\* number, the divisor, is between 1 and 21; the loop does every index.
C26_WindowClampedToSignal ==
    /\ Smoothed =>
          LET n == Len(ucall.values)
              i == uout.i - 1
          IN  /\ uout.start = Max(0, i - 10)
              /\ uout.end = Min(n - 1, i + 10)
              /\ uout.reads = uout.start..uout.end
              /\ uout.reads \subseteq 0..(n - 1)
              /\ uout.count = Cardinality(uout.reads)
              /\ uout.count >= 1 /\ uout.count <= 21
    /\ (ucall.fn \in Demodulators /\ upc = "returned")
          => uout.i = Len(ucall.values)

\* a window of 21 samples that touches neither end of the signal
C26_Witness ==
    /\ Smoothed
    /\ uout.count = 21
    /\ uout.start > 0 /\ uout.end < Len(ucall.values) - 1

\* C28: in demodulateFM the discriminator output at index 0 is zero, at
\* every index i >= 1 where I^2 + Q^2 does not exceed the threshold it is
\* zero, and the division is made only at indices where I^2 + Q^2 exceeds
\* the threshold.
C28_DiscriminatorGuardsDivision ==
    (ucall.fn = "demodulateFM" /\ upc \in {"filter", "returned"}) =>
        LET v == ucall.values
            raw == uout.values2
            Power(i) == v[i + 1] * v[i + 1] + v[i] * v[i]
        IN  /\ Len(raw) = Len(v)
            /\ raw[1] = 0
            /\ 0 \notin uout.divided
            /\ \A i \in 1..(Len(v) - 1) :
                  /\ Power(i) <= discriminatorFloor => raw[i + 1] = 0
                  /\ i \in uout.divided => Power(i) > discriminatorFloor

\* a signal with a non-zero first sample, an index where the division is
\* made and gives a non-zero output, and an index where I and Q are both zero
C28_Witness ==
    /\ ucall.fn = "demodulateFM" /\ upc = "returned"
    /\ ucall.values = <<2, 0, 0>>
    /\ uout.values2[1] = 0
    /\ uout.values2[2] # 0 /\ 1 \in uout.divided
    /\ uout.values2[3] = 0 /\ 2 \notin uout.divided

\* the Signals the current trial has made so far
TrialSignals ==
    {frame.originalMessage, frame.modulatedSignal, frame.noisySignal,
     frame.demodulatedSignal} \ {NoSignal}

\* C27: within every trial the baseband reference, the modulated signal, the
\* noisy signal and the demodulated signal have the same number of samples
\* (values and time stamps), so calculateSNR never indexes the demodulated
\* signal out of range: no trial aborts in the scoring step.
C27_TrialSignalsSameLength ==
    ucall.fn = "trial" =>
        /\ \A a \in TrialSignals : \A b \in TrialSignals :
              /\ Len(heap[a.Values]) = Len(heap[b.Values])
              /\ Len(heap[a.Time]) = Len(heap[b.Values])
        /\ upc = "demodulated" =>
              ~calculateSNRPanics(heap[frame.originalMessage.Values],
                                  heap[frame.demodulatedSignal.Values])
        /\ upc = "panicked" => frame.demodulatedSignal = NoSignal

\* a trial on two samples has been scored
C27_Witness ==
    /\ ucall.fn = "trial" /\ upc = "returned"
    /\ Cardinality(TrialSignals) = 4
    /\ \A a \in TrialSignals : Len(heap[a.Values]) = 2
    /\ steps = <<"generate", "noise", "demodulate", "score">>

\* the trial outputs the returned PerformanceResult was built from
AggregatedOutputs ==
    IF ucall.fn = "trial" THEN uout.measurements ELSE ucall.measurements

\* the aggregator has returned the statistics of at least minTrials finite
\* trial outputs
AggregatedFinite(minTrials) ==
    /\ ucall.fn \in {"aggregate", "trial"} /\ upc = "returned"
    /\ Len(AggregatedOutputs) >= minTrials
    /\ \A k \in 1..Len(AggregatedOutputs) : AggregatedOutputs[k].kind = "fin"

\* a float64 that is a number >= 0
NonNegative(x) == (x.kind = "fin" /\ x.val >= 0) \/ x = PosInf

\* C29 (as stated): every PerformanceResult of the aggregator has
\* StdDev >= 0, not NaN, for every trial count NumIterations >= 1 and every
\* list of finite trial outputs.
C29_StdDevNonNegativeFromOneTrial ==
    AggregatedFinite(1) => NonNegative(uout.result.StdDev)

\* C29 (amended): every PerformanceResult of the aggregator has StdDev >= 0,
\* not NaN, for every trial count NumIterations >= 2 and every list of finite
\* trial outputs.
C29_StdDevNonNegative ==
    AggregatedFinite(2) => NonNegative(uout.result.StdDev)

\* two equal finite outputs have been aggregated: the deviation is zero
C29_Witness ==
    /\ AggregatedFinite(2)
    /\ ucall.fn = "aggregate"
    /\ AggregatedOutputs[1] = AggregatedOutputs[2]
    /\ uout.result.StdDev = Fin(0)

\* the run took the sequential path: one goroutine, the caller's, ran the
\* trials
SequentialPath ==
    \/ entry = "Phase5" /\ ~config.UseParallel
    \/ entry = "Optimized" /\ ~OptParallel

\* C30: the WorkersUsed of the run statistics is the number of workers that
\* executed trials in the run: 1 when the sequential path was taken
\* (UseParallel = false, or NumWorkers <= 1 in OptimizedMonteCarloSimulation)
\* and the size of the worker pool otherwise.
C30_WorkersUsedIsWorkersThatRan ==
    (Returned /\ ~ret.err) =>
        ret.stats.WorkersUsed =
            (IF SequentialPath THEN 1 ELSE config.NumWorkers)

====
